---- MODULE Spec2Model ----
(***************************************************************************)
(* Resume_matcher: the text-to-record pipeline of src/llm_engine.py        *)
(* (LLMEngine), the document-extraction collaborator of src/utils.py and   *)
(* the analyze-button handler of src/main.py.                              *)
(*                                                                         *)
(* Texts are TLA+ strings, read character by character with SubSeq.        *)
(* Python's exceptions are values: an operator that can raise returns a    *)
(* record [exc |-> <exception name or "none">, v |-> <value>].             *)
(***************************************************************************)
EXTENDS Integers, Sequences, FiniteSets, TLC

(***************************************************************************)
(* Python str primitives.                                                  *)
(***************************************************************************)

Min(a, b) == IF a <= b THEN a ELSE b

\* The least element of a non-empty set of integers.
Least(S) == CHOOSE x \in S : \A y \in S : x <= y

\* The greatest element of a non-empty set of integers.
Greatest(S) == -Least({-x : x \in S})

\* s[i] with i counted from 1; the empty text outside s.
Char(s, i) == IF 1 <= i /\ i <= Len(s) THEN SubSeq(s, i, i) ELSE ""

\* s[off] with off counted from 0 as in Python; the empty text outside s.
At(s, off) == Char(s, off + 1)

\* s[a:b], a and b counted from 0 as in Python, 0 <= a.
Slice(s, a, b) == IF a >= Len(s) THEN "" ELSE SubSeq(s, a + 1, Min(b, Len(s)))

\* s[a:]
SliceFrom(s, a) == IF a >= Len(s) THEN "" ELSE SubSeq(s, a + 1, Len(s))

\* The characters str.strip() and str.split() treat as whitespace.
Whitespace == {" ", "\t", "\n", "\r", "\f"}

UpperLetters ==
    {"A","B","C","D","E","F","G","H","I","J","K","L","M",
     "N","O","P","Q","R","S","T","U","V","W","X","Y","Z"}

LowerLetters ==
    {"a","b","c","d","e","f","g","h","i","j","k","l","m",
     "n","o","p","q","r","s","t","u","v","w","x","y","z"}

Digits == {"0","1","2","3","4","5","6","7","8","9"}

UpperOf ==
    [c \in LowerLetters |->
        CASE c = "a" -> "A" [] c = "b" -> "B" [] c = "c" -> "C" [] c = "d" -> "D"
          [] c = "e" -> "E" [] c = "f" -> "F" [] c = "g" -> "G" [] c = "h" -> "H"
          [] c = "i" -> "I" [] c = "j" -> "J" [] c = "k" -> "K" [] c = "l" -> "L"
          [] c = "m" -> "M" [] c = "n" -> "N" [] c = "o" -> "O" [] c = "p" -> "P"
          [] c = "q" -> "Q" [] c = "r" -> "R" [] c = "s" -> "S" [] c = "t" -> "T"
          [] c = "u" -> "U" [] c = "v" -> "V" [] c = "w" -> "W" [] c = "x" -> "X"
          [] c = "y" -> "Y" [] c = "z" -> "Z"]

LowerOf ==
    [c \in UpperLetters |-> CHOOSE d \in LowerLetters : UpperOf[d] = c]

\* str.upper()
RECURSIVE Upper(_)
Upper(s) ==
    IF Len(s) = 0 THEN ""
    ELSE IF Len(s) = 1 THEN (IF s \in LowerLetters THEN UpperOf[s] ELSE s)
    ELSE Upper(SubSeq(s, 1, Len(s) \div 2)) \o Upper(SubSeq(s, Len(s) \div 2 + 1, Len(s)))

\* str.lower()
RECURSIVE Lower(_)
Lower(s) ==
    IF Len(s) = 0 THEN ""
    ELSE IF Len(s) = 1 THEN (IF s \in UpperLetters THEN LowerOf[s] ELSE s)
    ELSE Lower(SubSeq(s, 1, Len(s) \div 2)) \o Lower(SubSeq(s, Len(s) \div 2 + 1, Len(s)))

\* str.strip()
Strip(s) ==
    LET keep == {i \in 1..Len(s) : Char(s, i) \notin Whitespace}
    IN  IF keep = {} THEN "" ELSE SubSeq(s, Least(keep), Greatest(keep))

\* str.lstrip(chars): the leading characters of the set chars removed.
LStripChars(s, chars) ==
    LET keep == {i \in 1..Len(s) : Char(s, i) \notin chars}
    IN  IF keep = {} THEN "" ELSE SubSeq(s, Least(keep), Len(s))

\* The 0-based offsets at which pat occurs in s.
Occurrences(s, pat) ==
    {i \in 0..(Len(s) - Len(pat)) : SubSeq(s, i + 1, i + Len(pat)) = pat}

\* pat in s
Contains(s, pat) == Occurrences(s, pat) # {}

\* str.find(pat): the first 0-based offset, -1 when there is none.
Find(s, pat) == IF Contains(s, pat) THEN Least(Occurrences(s, pat)) ELSE -1

\* str.rfind(pat): the last 0-based offset, -1 when there is none.
RFind(s, pat) == IF Contains(s, pat) THEN Greatest(Occurrences(s, pat)) ELSE -1

\* str.startswith(pat)
StartsWith(s, pat) == Len(s) >= Len(pat) /\ SubSeq(s, 1, Len(pat)) = pat

\* str.split(sep) for a non-empty separator: always at least one part.
RECURSIVE Split(_, _)
Split(s, sep) ==
    LET at == Find(s, sep)
    IN  IF at = -1 THEN <<s>>
        ELSE <<Slice(s, 0, at)>> \o Split(SliceFrom(s, at + Len(sep)), sep)

\* str.split(): the maximal runs of non-whitespace characters.
RECURSIVE SplitWords(_)
SplitWords(s) ==
    LET t == LStripChars(s, Whitespace)
        ws == {i \in 1..Len(t) : Char(t, i) \in Whitespace}
    IN  IF t = "" THEN << >>
        ELSE IF ws = {} THEN <<t>>
        ELSE <<SubSeq(t, 1, Least(ws) - 1)>> \o SplitWords(SubSeq(t, Least(ws), Len(t)))

\* sep.join(parts)
RECURSIVE Join(_, _)
Join(sep, parts) ==
    IF parts = << >> THEN ""
    ELSE IF Len(parts) = 1 THEN parts[1]
    ELSE parts[1] \o sep \o Join(sep, Tail(parts))

\* str.replace(old, new) for a non-empty old.
Replace(s, old, new) == Join(new, Split(s, old))

\* n copies of the character c.
RECURSIVE Repeat(_, _)
Repeat(c, n) ==
    IF n <= 0 THEN ""
    ELSE IF n = 1 THEN c
    ELSE Repeat(c, n \div 2) \o Repeat(c, n - n \div 2)

\* seq[:n]
Take(seq, n) == SubSeq(seq, 1, Min(n, Len(seq)))

(***************************************************************************)
(* The regular expressions of the source, matched as Python's re does:     *)
(* leftmost start, alternatives in order, greedy repetition with           *)
(* backtracking.  A pattern is a sequence of items                         *)
(*   cls  : a character class repeated lo..hi times (hi = -1: unbounded)   *)
(*   lit  : a literal text;  ilit : a literal matched ignoring case        *)
(*   wb   : the word boundary \b                                           *)
(* and a search takes the pattern's top-level alternatives in order.       *)
(***************************************************************************)

Cls(c, lo, hi) == [k |-> "cls", c |-> c, lo |-> lo, hi |-> hi, a |-> ""]

Lit(a) == [k |-> "lit", c |-> {}, lo |-> 0, hi |-> 0, a |-> a]

ILit(a) == [k |-> "ilit", c |-> {}, lo |-> 0, hi |-> 0, a |-> a]

WordBoundary == [k |-> "wb", c |-> {}, lo |-> 0, hi |-> 0, a |-> ""]

\* \w
WordChars == UpperLetters \cup LowerLetters \cup Digits \cup {"_"}

\* \s
SpaceChars == {" ", "\t", "\n", "\r", "\f"}

\* \b at offset pos: exactly one of the characters around it is a word character.
AtWordBoundary(s, pos) ==
    (pos >= 1 /\ Char(s, pos) \in WordChars)
        # (pos < Len(s) /\ Char(s, pos + 1) \in WordChars)

\* The longest run, of at most hi characters of class c (hi = -1: of any
\* length), that starts at offset pos, n of its characters being counted.
RECURSIVE RunFrom(_, _, _, _, _)
RunFrom(s, pos, c, hi, n) ==
    IF n # hi /\ At(s, pos + n) \in c THEN RunFrom(s, pos, c, hi, n + 1) ELSE n

RunLength(s, pos, c, hi) == RunFrom(s, pos, c, hi, 0)

\* The offset after the first match (in backtracking order) of items k.. at
\* offset pos, -1 when there is none.
RECURSIVE MatchFrom(_, _, _, _)
MatchFrom(items, s, k, pos) ==
    IF k > Len(items) THEN pos
    ELSE LET it == items[k]
         IN  CASE it.k = "wb" ->
                    IF AtWordBoundary(s, pos) THEN MatchFrom(items, s, k + 1, pos) ELSE -1
               [] it.k = "lit" ->
                    IF Slice(s, pos, pos + Len(it.a)) = it.a
                    THEN MatchFrom(items, s, k + 1, pos + Len(it.a)) ELSE -1
               [] it.k = "ilit" ->
                    IF Lower(Slice(s, pos, pos + Len(it.a))) = Lower(it.a)
                    THEN MatchFrom(items, s, k + 1, pos + Len(it.a)) ELSE -1
               [] it.k = "cls" ->
                    LET run == RunLength(s, pos, it.c, it.hi)
                        good == {n \in it.lo..run : MatchFrom(items, s, k + 1, pos + n) # -1}
                    IN  IF good = {} THEN -1
                        ELSE MatchFrom(items, s, k + 1, pos + Greatest(good))

\* The alternatives of alts that match at offset pos.
MatchingAlts(alts, s, pos) ==
    {a \in 1..Len(alts) : MatchFrom(alts[a], s, 1, pos) # -1}

\* re.search: [found, start, end], the match being s[start:end].
Search(alts, s) ==
    LET starts == {i \in 0..Len(s) : MatchingAlts(alts, s, i) # {}}
    IN  IF starts = {} THEN [found |-> FALSE, start |-> 0, end |-> 0]
        ELSE LET i == Least(starts)
             IN  [found |-> TRUE, start |-> i,
                  end |-> MatchFrom(alts[Least(MatchingAlts(alts, s, i))], s, 1, i)]

(***************************************************************************)
(* Python values, as json.loads builds them.  An int is its sign and its   *)
(* decimal digits (Python's integers are unbounded); a float is finite     *)
(* ("fin": sign, whole digits, fraction digits without trailing zeros),    *)
(* infinite ("inf") or not a number ("nan").  A dict keeps its keys in     *)
(* insertion order.                                                        *)
(***************************************************************************)

PyNone == [t |-> "null"]

PyBool(b) == [t |-> "bool", b |-> b]

PyInt(neg, d) == [t |-> "int", neg |-> neg, d |-> d]

PyFloat(k, neg, w, f) == [t |-> "float", k |-> k, neg |-> neg, w |-> w, f |-> f]

PyStr(s) == [t |-> "str", s |-> s]

PyList(items) == [t |-> "list", items |-> items]

PyDict(keys, vals) == [t |-> "dict", keys |-> keys, vals |-> vals]

EmptyDict == PyDict(<< >>, << >>)

\* isinstance(v, dict), isinstance(v, list), isinstance(v, str)
IsDict(v) == v.t = "dict"

IsList(v) == v.t = "list"

IsStr(v) == v.t = "str"

\* The position of key among the keys of d, 0 when it is absent.
KeyIndex(d, key) ==
    LET at == {i \in 1..Len(d.keys) : d.keys[i] = key}
    IN  IF at = {} THEN 0 ELSE Least(at)

\* d[key] = val
DictPut(d, key, val) ==
    IF KeyIndex(d, key) = 0
    THEN PyDict(Append(d.keys, key), Append(d.vals, val))
    ELSE PyDict(d.keys, [d.vals EXCEPT ![KeyIndex(d, key)] = val])

\* d.get(key, default)
DictGet(d, key, default) ==
    IF KeyIndex(d, key) = 0 THEN default ELSE d.vals[KeyIndex(d, key)]

\* The digits of d without leading zeros ("0" for zero).
StripZeros(d) ==
    LET nz == {i \in 1..Len(d) : Char(d, i) # "0"}
    IN  IF nz = {} THEN "0" ELSE SubSeq(d, Least(nz), Len(d))

\* The digits of d without trailing zeros ("" for zero).
StripTrailingZeros(d) ==
    LET nz == {i \in 1..Len(d) : Char(d, i) # "0"}
    IN  IF nz = {} THEN "" ELSE SubSeq(d, 1, Greatest(nz))

DigitValue ==
    [c \in Digits |->
        CASE c = "0" -> 0 [] c = "1" -> 1 [] c = "2" -> 2 [] c = "3" -> 3 [] c = "4" -> 4
          [] c = "5" -> 5 [] c = "6" -> 6 [] c = "7" -> 7 [] c = "8" -> 8 [] c = "9" -> 9]

\* The number a text of at most 8 digits denotes.
RECURSIVE NatOf(_)
NatOf(d) ==
    IF d = "" THEN 0
    ELSE 10 * NatOf(SubSeq(d, 1, Len(d) - 1)) + DigitValue[Char(d, Len(d))]

\* The decimal digits of a natural number.
RECURSIVE TextOf(_)
TextOf(n) ==
    LET last == CHOOSE c \in Digits : DigitValue[c] = n % 10
    IN  IF n < 10 THEN last ELSE TextOf(n \div 10) \o last

AllDigits(d) == \A i \in 1..Len(d) : Char(d, i) \in Digits

\* bool(v): Python's truth value.
Truthy(v) ==
    CASE v.t = "null" -> FALSE
      [] v.t = "bool" -> v.b
      [] v.t = "int" -> v.d # "0"
      [] v.t = "float" -> ~(v.k = "fin" /\ v.w = "0" /\ v.f = "")
      [] v.t = "str" -> v.s # ""
      [] v.t = "list" -> v.items # << >>
      [] v.t = "dict" -> v.keys # << >>

(***************************************************************************)
(* float(text).  A decimal text is taken exactly, which is what Python     *)
(* does for the texts of up to 15 significant digits drawn here; the       *)
(* overflow to infinity is decided on the first 17 significant digits.     *)
(* An underscore is read between two digits, as Python reads it.           *)
(***************************************************************************)

\* The largest decimal order of a finite float (1.797...e308).
\* d1 >= d2 for two digit texts of the same length.
DigitsGE(d1, d2) ==
    LET diff == {i \in 1..Len(d1) : Char(d1, i) # Char(d2, i)}
    IN  diff = {} \/ DigitValue[Char(d1, Least(diff))] > DigitValue[Char(d2, Least(diff))]

\* whole.frac * 10^exp of sign neg, as a float; exp is [neg, d].
DecimalFloat(neg, whole, frac, exp) ==
    LET digits == whole \o frac
        sig == StripZeros(digits)
        zero == sig = "0"
        \* leading zeros of digits, and the decimal order of the mantissa
        lead == Len(digits) - Len(sig)
        order0 == Len(whole) - lead
        huge == Len(exp.d) > 4
        e == IF huge THEN 0 ELSE (IF exp.neg THEN -NatOf(exp.d) ELSE NatOf(exp.d))
        order == order0 + e
        sig17 == SubSeq(sig \o Repeat("0", 17), 1, 17)
        \* the greatest float is 1.7976931348623157e308: from the digits
        \* 17976931348623158 on, a number of that order rounds to infinity
        over == (huge /\ ~exp.neg)
                  \/ (~huge /\ (order > 309
                                  \/ (order = 309 /\ DigitsGE(sig17, "17976931348623158"))))
        under == (huge /\ exp.neg) \/ (~huge /\ order < -330)
        \* the decimal point moved by e places
        point == Len(whole) + e
        w == IF point <= 0 THEN "0"
             ELSE StripZeros(SubSeq(digits \o Repeat("0", point - Len(digits)), 1, point))
        f == IF point <= 0 THEN Repeat("0", -point) \o digits
             ELSE IF point >= Len(digits) THEN ""
             ELSE SubSeq(digits, point + 1, Len(digits))
    IN  IF zero \/ under THEN PyFloat("fin", neg, "0", "")
        ELSE IF over THEN PyFloat("inf", neg, "", "")
        ELSE PyFloat("fin", neg, w, StripTrailingZeros(f))

\* An exponent text ("", or an optional sign and digits) as [ok, neg, d].
ExponentOf(t) ==
    LET signed == At(t, 0) \in {"+", "-"}
        d == IF signed THEN SliceFrom(t, 1) ELSE t
    IN  [ok |-> d # "" /\ AllDigits(d), neg |-> At(t, 0) = "-", d |-> StripZeros(d)]

FloatError == [exc |-> "ValueError", v |-> PyNone]

\* float of a mantissa, given as its parts around ".", and the exponent exp.
FloatOfMantissa(neg, mant, exp) ==
    LET whole == mant[1]
        frac == IF Len(mant) = 1 THEN "" ELSE mant[2]
    IN  IF Len(mant) > 2 \/ ~exp.ok THEN FloatError
        ELSE IF whole \o frac = "" \/ ~AllDigits(whole) \/ ~AllDigits(frac) THEN FloatError
        ELSE [exc |-> "none", v |-> DecimalFloat(neg, whole, frac, exp)]

\* float of an unsigned decimal literal, given as its parts around "e".
FloatOfParts(neg, parts) ==
    IF Len(parts) > 2 THEN FloatError
    ELSE FloatOfMantissa(neg, Split(parts[1], "."),
                         IF Len(parts) = 1 THEN [ok |-> TRUE, neg |-> FALSE, d |-> "0"]
                         ELSE ExponentOf(parts[2]))

\* Every underscore of the literal stands between two digits.
Grouped(body) ==
    \A i \in 1..Len(body) :
        Char(body, i) = "_" => Char(body, i - 1) \in Digits /\ Char(body, i + 1) \in Digits

\* float of a literal without its sign, in lower case.
FloatOfUnsigned(neg, body) ==
    IF body \in {"inf", "infinity"} THEN [exc |-> "none", v |-> PyFloat("inf", neg, "", "")]
    ELSE IF body = "nan" THEN [exc |-> "none", v |-> PyFloat("nan", neg, "", "")]
    ELSE IF ~Grouped(body) THEN FloatError
    ELSE FloatOfParts(neg, Split(Replace(body, "_", ""), "e"))

\* float(text): [exc, v] with exc "ValueError" when text is no number.
FloatOfText(text) ==
    LET t == Strip(text)
    IN  FloatOfUnsigned(At(t, 0) = "-",
                        Lower(IF At(t, 0) \in {"+", "-"} THEN SliceFrom(t, 1) ELSE t))

\* int(f) for a float f: [exc, v], truncating toward zero.
IntOfFloat(f) ==
    IF f.k = "inf" THEN [exc |-> "OverflowError", v |-> PyNone]
    ELSE IF f.k = "nan" THEN [exc |-> "ValueError", v |-> PyNone]
    ELSE [exc |-> "none", v |-> PyInt(f.neg /\ f.w # "0", f.w)]

(***************************************************************************)
(* str(v) and repr(v).                                                     *)
(***************************************************************************)

\* repr of a float: positional below 1e16, exponent notation from there.
FloatRepr(f) ==
    LET sign == IF f.neg THEN "-" ELSE ""
        tail == StripTrailingZeros(SliceFrom(f.w, 1) \o f.f)
        small == f.w = "0" /\ StartsWith(f.f, "0000")
        lead == Len(f.f) - Len(StripZeros(f.f))
        sig == StripZeros(f.f)
        two(n) == IF n < 10 THEN "0" \o TextOf(n) ELSE TextOf(n)
    IN  IF f.k = "inf" THEN sign \o "inf"
        ELSE IF f.k = "nan" THEN "nan"
        ELSE IF Len(f.w) > 16
             THEN sign \o Char(f.w, 1) \o (IF tail = "" THEN "" ELSE "." \o tail)
                  \o "e+" \o two(Len(f.w) - 1)
        ELSE IF small
             THEN sign \o Char(sig, 1)
                  \o (IF Len(sig) = 1 THEN "" ELSE "." \o SliceFrom(sig, 1))
                  \o "e-" \o two(lead + 1)
        ELSE sign \o f.w \o "." \o (IF f.f = "" THEN "0" ELSE f.f)

\* repr of a str: single quotes unless the text holds ' and no ".
StrRepr(s) ==
    LET body == Replace(Replace(Replace(Replace(s, "\\", "\\\\"),
                    "\n", "\\n"), "\t", "\\t"), "\r", "\\r")
    IN  IF Contains(s, "'") /\ ~Contains(s, "\"") THEN "\"" \o body \o "\""
        ELSE "'" \o Replace(body, "'", "\\'") \o "'"

RECURSIVE Repr(_)
RECURSIVE ReprItems(_)
RECURSIVE ReprPairs(_, _)
Repr(v) ==
    CASE v.t = "null" -> "None"
      [] v.t = "bool" -> IF v.b THEN "True" ELSE "False"
      [] v.t = "int" -> (IF v.neg THEN "-" ELSE "") \o v.d
      [] v.t = "float" -> FloatRepr(v)
      [] v.t = "str" -> StrRepr(v.s)
      [] v.t = "list" -> "[" \o Join(", ", ReprItems(v.items)) \o "]"
      [] v.t = "dict" -> "{" \o Join(", ", ReprPairs(v.keys, v.vals)) \o "}"

ReprItems(items) ==
    IF items = << >> THEN << >> ELSE <<Repr(items[1])>> \o ReprItems(Tail(items))

ReprPairs(keys, vals) ==
    IF keys = << >> THEN << >>
    ELSE <<StrRepr(keys[1]) \o ": " \o Repr(vals[1])>> \o ReprPairs(Tail(keys), Tail(vals))

\* str(v)
Str(v) == IF v.t = "str" THEN v.s ELSE Repr(v)

(***************************************************************************)
(* json.loads(text), as json.decoder and json.scanner read a document.     *)
(* A parse step returns [ok, v, e]: whether it parsed, the value, and the  *)
(* offset after it.  The escapes \b and \uXXXX are not read: no text drawn *)
(* here carries them.                                                      *)
(***************************************************************************)

\* json.decoder.WHITESPACE
NoParse == [ok |-> FALSE, v |-> PyNone, e |-> 0]

Parsed(v, e) == [ok |-> TRUE, v |-> v, e |-> e]

\* json.decoder.WHITESPACE from offset i: the offset behind it.
SkipWhitespace(s, i) == i + RunLength(s, i, {" ", "\t", "\n", "\r"}, -1)

\* The number of backslashes that end s[from:to].
TrailingBackslashes(s, from, to) ==
    Greatest({n \in 0..(to - from) : \A t \in 1..n : At(s, to - t) = "\\"})

\* json.decoder.BACKSLASH: the character an escape letter stands for.
Unescaped(c) ==
    CASE c = "n" -> "\n" [] c = "t" -> "\t" [] c = "r" -> "\r" [] c = "f" -> "\f"
      [] OTHER -> c

\* The text a string body denotes, its escapes replaced.
RECURSIVE DecodeEscapes(_)
DecodeEscapes(body) ==
    LET b == Find(body, "\\")
    IN  IF b = -1 THEN body
        ELSE Slice(body, 0, b) \o Unescaped(At(body, b + 1))
             \o DecodeEscapes(SliceFrom(body, b + 2))

\* Every escape of the string body is one JSON knows.
RECURSIVE EscapesValid(_)
EscapesValid(body) ==
    LET b == Find(body, "\\")
    IN  b = -1
        \/ (At(body, b + 1) \in {"\"", "\\", "/", "n", "t", "r", "f"}
              /\ EscapesValid(SliceFrom(body, b + 2)))

\* scanstring(s, i): the string whose opening quote is just before offset i.
ScanString(s, i) ==
    LET closing == {j \in i..(Len(s) - 1) :
                       At(s, j) = "\"" /\ TrailingBackslashes(s, i, j) % 2 = 0}
        j == Least(closing)
        body == Slice(s, i, j)
    IN  IF closing = {} THEN NoParse
        \* strict mode: no control character inside a string
        ELSE IF \E k \in 1..Len(body) : Char(body, k) \in {"\t", "\n", "\r", "\f"}
             THEN NoParse
        ELSE IF ~EscapesValid(body) THEN NoParse
        ELSE [ok |-> TRUE, v |-> DecodeEscapes(body), e |-> j + 1]

\* The number that starts at offset i, with digits from p, and ends before e;
\* its integer part ends before q.
NumberValue(s, i, p, q, e) ==
    IF q = p THEN NoParse
    ELSE IF e = q THEN Parsed(PyInt(p > i /\ Slice(s, p, q) # "0", Slice(s, p, q)), e)
    ELSE Parsed(FloatOfText(Slice(s, i, e)).v, e)

\* The end of ([eE][-+]?\d+)? at offset r.
ExponentEnd(s, r) ==
    LET d == IF At(s, r + 1) \in {"+", "-"} THEN r + 2 ELSE r + 1
    IN  IF At(s, r) \in {"e", "E"} /\ At(s, d) \in Digits
        THEN d + RunLength(s, d, Digits, -1) ELSE r

\* The end of (\.\d+)? at offset q.
FractionEnd(s, q) ==
    IF At(s, q) = "." /\ At(s, q + 1) \in Digits
    THEN q + 1 + RunLength(s, q + 1, Digits, -1) ELSE q

\* The end of (?:0|[1-9]\d*) at offset p; p when it does not match.
IntegerEnd(s, p) == IF At(s, p) = "0" THEN p + 1 ELSE p + RunLength(s, p, Digits, -1)

NumberFrom(s, i, p, q) == NumberValue(s, i, p, q, ExponentEnd(s, FractionEnd(s, q)))

\* json.scanner.NUMBER_RE at offset i: (-?(?:0|[1-9]\d*))(\.\d+)?([eE][-+]?\d+)?
MatchNumber(s, i) ==
    IF At(s, i) = "-" THEN NumberFrom(s, i, i + 1, IntegerEnd(s, i + 1))
    ELSE NumberFrom(s, i, i, IntegerEnd(s, i))

RECURSIVE ScanOnce(_, _)
RECURSIVE ObjectPairs(_, _, _)
RECURSIVE ArrayItems(_, _, _)

\* JSONObject after a pair: the object ends at offset next, or its next key
\* starts at offset after.
ObjectMore(s, pairs, next, after) ==
    IF At(s, next) = "}" THEN Parsed(pairs, next + 1)
    ELSE IF At(s, next) # "," \/ At(s, after) # "\"" THEN NoParse
    ELSE ObjectPairs(s, after, pairs)

\* JSONObject after a key, the colon expected at offset colon.
ObjectColon(s, acc, key, colon) ==
    LET val == ScanOnce(s, SkipWhitespace(s, colon + 1))
        next == SkipWhitespace(s, val.e)
    IN  IF ~key.ok \/ At(s, colon) # ":" \/ ~val.ok THEN NoParse
        ELSE ObjectMore(s, DictPut(acc, key.v, val.v), next, SkipWhitespace(s, next + 1))

\* JSONObject: the pairs of an object, from the opening quote of a key at offset
\* i, acc the pairs before it.
ObjectPairs(s, i, acc) ==
    ObjectColon(s, acc, ScanString(s, i + 1), SkipWhitespace(s, ScanString(s, i + 1).e))

\* JSONArray after an item: the array ends at offset next, or goes on.
ArrayMore(s, items, next) ==
    IF At(s, next) = "]" THEN Parsed(PyList(items), next + 1)
    ELSE IF At(s, next) # "," THEN NoParse
    ELSE ArrayItems(s, SkipWhitespace(s, next + 1), items)

\* JSONArray: the items of an array, from the item at offset i, acc the items
\* before it.
ArrayItems(s, i, acc) ==
    LET val == ScanOnce(s, i)
    IN  IF ~val.ok THEN NoParse
        ELSE ArrayMore(s, Append(acc, val.v), SkipWhitespace(s, val.e))

\* The constants scan_once knows: null, true, false, NaN, Infinity, -Infinity.
ScanConstant(s, i) ==
    IF Slice(s, i, i + 4) = "null" THEN Parsed(PyNone, i + 4)
    ELSE IF Slice(s, i, i + 4) = "true" THEN Parsed(PyBool(TRUE), i + 4)
    ELSE IF Slice(s, i, i + 5) = "false" THEN Parsed(PyBool(FALSE), i + 5)
    ELSE IF Slice(s, i, i + 3) = "NaN" THEN Parsed(PyFloat("nan", FALSE, "", ""), i + 3)
    ELSE IF Slice(s, i, i + 8) = "Infinity"
         THEN Parsed(PyFloat("inf", FALSE, "", ""), i + 8)
    ELSE IF Slice(s, i, i + 9) = "-Infinity"
         THEN Parsed(PyFloat("inf", TRUE, "", ""), i + 9)
    ELSE NoParse

\* An object whose first character after "{" is at offset first.
ScanObject(s, first) ==
    IF At(s, first) = "}" THEN Parsed(EmptyDict, first + 1)
    ELSE IF At(s, first) # "\"" THEN NoParse
    ELSE ObjectPairs(s, first, EmptyDict)

\* An array whose first character after "[" is at offset first.
ScanArray(s, first) ==
    IF At(s, first) = "]" THEN Parsed(PyList(<< >>), first + 1)
    ELSE ArrayItems(s, first, << >>)

\* json.scanner's scan_once(s, i): one value at offset i.
ScanOnce(s, i) ==
    IF At(s, i) = "" THEN NoParse
    ELSE IF At(s, i) = "\""
         THEN LET str == ScanString(s, i + 1)
              IN  IF str.ok THEN Parsed(PyStr(str.v), str.e) ELSE NoParse
    ELSE IF At(s, i) = "{" THEN ScanObject(s, SkipWhitespace(s, i + 1))
    ELSE IF At(s, i) = "[" THEN ScanArray(s, SkipWhitespace(s, i + 1))
    ELSE LET num == MatchNumber(s, i)
         IN  IF num.ok THEN num ELSE ScanConstant(s, i)

JsonDocument(text, val) ==
    IF val.ok /\ SkipWhitespace(text, val.e) = Len(text)
    THEN [exc |-> "none", v |-> val.v]
    ELSE [exc |-> "JSONDecodeError", v |-> PyNone]

\* json.loads(text): [exc, v], exc "JSONDecodeError" when text is no JSON document
\* or is followed by extra data.
JsonLoads(text) == JsonDocument(text, ScanOnce(text, SkipWhitespace(text, 0)))

(***************************************************************************)
(* Characters a TLA+ string cannot hold, each written as an ASCII          *)
(* character that no text drawn here uses for anything else.               *)
(***************************************************************************)

\* The backtick (U+0060).
Backtick == "^"

\* The three characters U+00E2, U+20AC, U+00A2 of the source's bullet literal.
BulletLiteral == "&$#"

(***************************************************************************)
(* LLMEngine (src/llm_engine.py).                                          *)
(***************************************************************************)

\* hashlib.md5(text).hexdigest(): the digest of text, kept symbolic (two texts
\* have one digest only when they are one text: no collision is modelled).
Md5HexDigest(text) == <<"md5", text>>

\* The characters of resume_text and job_desc that enter the cache key.
ResumeKeyChars == 1000

JobKeyChars == 500

\* The text _get_cache_key hands to the digest.
CacheKeyInput(resume_text, job_desc) ==
    Slice(resume_text, 0, ResumeKeyChars) \o "|" \o Slice(job_desc, 0, JobKeyChars)

_get_cache_key(resume_text, job_desc) ==
    Md5HexDigest(CacheKeyInput(resume_text, job_desc))

\* re.sub(r',(\s*[}\]])', r'\1', text): the commas that only whitespace separates
\* from a closing brace or bracket, removed.
RemoveTrailingCommas(text) ==
    LET drop == {i \in 1..Len(text) :
                    /\ Char(text, i) = ","
                    /\ At(text, i + RunLength(text, i, SpaceChars, -1)) \in {"}", "]"}}
        RECURSIVE keep(_)
        keep(i) ==
            IF i > Len(text) THEN ""
            ELSE LET cut == {j \in drop : j >= i}
                 IN  IF cut = {} THEN SubSeq(text, i, Len(text))
                     ELSE SubSeq(text, i, Least(cut) - 1) \o keep(Least(cut) + 1)
    IN  keep(1)

Fence == Backtick \o Backtick \o Backtick

\* Strategy 2: the first fenced segment, a leading "json" tag stripped.
FencedSegment(text) ==
    LET json_text == Split(text, Fence)[2]
    IN  Strip(IF StartsWith(json_text, "json") THEN SliceFrom(json_text, 4) ELSE json_text)

\* Strategies 3 and 4: text[start:end] from the first "{" to the last "}".
BraceSegment(text) == Slice(text, Find(text, "{"), RFind(text, "}") + 1)

HasBraceSegment(text) ==
    Find(text, "{") # -1 /\ RFind(text, "}") + 1 > Find(text, "{")

\* Strategy 3: the brace segment parsed; or strategy 4: the segment parsed with
\* its single quotes doubled and its trailing commas removed; or the empty dict.
ThirdParse(text, s3) ==
    LET s4 == JsonLoads(RemoveTrailingCommas(Replace(BraceSegment(text), "'", "\"")))
    IN  IF s3.exc = "none" THEN s3.v
        ELSE IF s4.exc = "none" THEN s4.v
        ELSE EmptyDict

BraceParse(text) ==
    IF HasBraceSegment(text) THEN ThirdParse(text, JsonLoads(BraceSegment(text)))
    ELSE EmptyDict

\* A normalizer that goes from strategy 1 to strategy 3.
SecondParseSkipped(text, fenced, s2) == BraceParse(text)

\* Strategy 2: the fenced segment parsed, or the later strategies.
SecondParse(text, fenced, s2) ==
    IF fenced /\ s2.exc = "none" THEN s2.v ELSE BraceParse(text)

\* Strategy 1: the whole text parsed, or the later strategies.
FirstParse(text, s1) ==
    IF s1.exc = "none" THEN s1.v
    ELSE SecondParse(text, Contains(text, Fence), JsonLoads(FencedSegment(text)))

\* _extract_json_from_response(text) for a text: the value returned.  It raises
\* nothing: each json.loads is guarded by its except clause.
_extract_json_from_response(raw) ==
    IF raw = "" THEN EmptyDict ELSE FirstParse(Strip(raw), JsonLoads(Strip(raw)))

\* email_pattern: \b[A-Za-z0-9._%+-]+@[A-Za-z0-9.-]+\.[A-Z|a-z]{2,}\b
EmailPattern ==
    << <<WordBoundary,
         Cls(UpperLetters \cup LowerLetters \cup Digits \cup {".", "_", "%", "+", "-"}, 1, -1),
         Lit("@"),
         Cls(UpperLetters \cup LowerLetters \cup Digits \cup {".", "-"}, 1, -1),
         Lit("."),
         Cls(UpperLetters \cup LowerLetters \cup {"|"}, 2, -1),
         WordBoundary>> >>

\* \(?\d{3}\)?[-.\s]?\d{3}[-.\s]?\d{4}
PhoneDigits ==
    <<Cls({"("}, 0, 1), Cls(Digits, 3, 3), Cls({")"}, 0, 1),
      Cls({"-", "."} \cup SpaceChars, 0, 1), Cls(Digits, 3, 3),
      Cls({"-", "."} \cup SpaceChars, 0, 1), Cls(Digits, 4, 4)>>

\* phone_pattern: (\+\d{1,3}[-.\s]?)?\(?\d{3}\)?[-.\s]?\d{3}[-.\s]?\d{4}, the
\* optional country code taken first.
PhonePattern ==
    << <<Lit("+"), Cls(Digits, 1, 3), Cls({"-", "."} \cup SpaceChars, 0, 1)>> \o PhoneDigits,
       PhoneDigits >>

\* The name test of _extract_personal_info on a stripped line.
IsNameLine(line) ==
    /\ Len(SplitWords(line)) >= 2
    /\ Len(SplitWords(line)) <= 4
    /\ Char(line, 1) \in UpperLetters
    /\ \A bad \in {"@", "http", "/", "\\"} : ~Contains(line, bad)

\* The lines of the resume that are scanned for the name.
NameLines == 5

\* match.group(0) if match else "", for the match m of a search in text.
MatchedText(text, m) == IF m.found THEN Slice(text, m.start, m.end) ELSE ""

\* The first of the lines that passes the name test, stripped; "" without one.
FirstNameLine(lines) ==
    LET named == {i \in 1..Len(lines) : IsNameLine(Strip(lines[i]))}
    IN  IF named = {} THEN "" ELSE Strip(lines[Least(named)])

\* A personal-info scan that looks for the name in every line of the resume.
PersonalInfoOfAnyLine(resume_text) ==
    [name |-> FirstNameLine(Split(resume_text, "\n")),
     email |-> MatchedText(resume_text, Search(EmailPattern, resume_text)),
     phone |-> MatchedText(resume_text, Search(PhonePattern, resume_text))]

_extract_personal_info(resume_text) ==
    [name |-> FirstNameLine(Take(Split(resume_text, "\n"), NameLines)),
     email |-> MatchedText(resume_text, Search(EmailPattern, resume_text)),
     phone |-> MatchedText(resume_text, Search(PhonePattern, resume_text))]

\* [str(item).strip() for item in items if item and str(item).strip()]
RECURSIVE ListItems(_)
ListItems(items) ==
    IF items = << >> THEN << >>
    ELSE (IF Truthy(items[1]) /\ Strip(Str(items[1])) # ""
          THEN <<Strip(Str(items[1]))>> ELSE << >>)
         \o ListItems(Tail(items))

\* [item.strip() for item in parts if item.strip()]
RECURSIVE StrippedParts(_)
StrippedParts(parts) ==
    IF parts = << >> THEN << >>
    ELSE (IF Strip(parts[1]) # "" THEN <<Strip(parts[1])>> ELSE << >>)
         \o StrippedParts(Tail(parts))

_extract_list(data) ==
    IF IsList(data) THEN ListItems(data.items)
    ELSE IF IsStr(data) THEN StrippedParts(Split(data.s, ","))
    ELSE << >>

\* max(0, min(100, n)) for a Python int n.
ClampScore(n) ==
    IF n.neg THEN 0
    ELSE IF Len(n.d) > 3 THEN 100
    ELSE Min(100, NatOf(n.d))

\* _extract_score(score): [exc, v].  ValueError and TypeError are caught and give
\* 0; any other exception of int(float(str(score))) leaves the method.
\* The score for f, what float(str(score)) gave.
ScoreOfFloat(f) ==
    LET n == IntOfFloat(f.v)
    IN  IF f.exc = "ValueError" \/ n.exc = "ValueError" THEN [exc |-> "none", v |-> 0]
        ELSE IF n.exc # "none" THEN [exc |-> n.exc, v |-> 0]
        ELSE [exc |-> "none", v |-> ClampScore(n.v)]

_extract_score(score) == ScoreOfFloat(FloatOfText(Str(score)))

common_skills ==
    <<"Python", "JavaScript", "Java", "C++", "SQL", "AWS", "Azure", "Docker",
      "Kubernetes", "React", "Node.js", "Machine Learning", "Data Analysis",
      "Project Management", "Agile", "Git", "Linux", "Communication", "Leadership">>

\* The skills the fallback returns at most.
MaxFallbackSkills == 8

\* [skill for skill in common_skills if skill.upper() in resume_upper], from
\* the i-th skill on.
RECURSIVE FoundSkills(_, _)
FoundSkills(resume_upper, i) ==
    IF i > Len(common_skills) THEN << >>
    ELSE (IF Contains(resume_upper, Upper(common_skills[i]))
          THEN <<common_skills[i]>> ELSE << >>) \o FoundSkills(resume_upper, i + 1)

\* A skills fallback that returns every skill it found.
SkillsFallbackUncapped(resume_text) ==
    LET found_skills == FoundSkills(Upper(resume_text), 1)
    IN  IF found_skills # << >> THEN found_skills
        ELSE <<"Technical Skills", "Problem Solving", "Team Collaboration">>

_extract_skills_fallback(resume_text) ==
    LET found_skills == FoundSkills(Upper(resume_text), 1)
    IN  IF found_skills # << >> THEN Take(found_skills, MaxFallbackSkills)
        ELSE <<"Technical Skills", "Problem Solving", "Team Collaboration">>

_generate_fallback_summary(resume_text, job_desc) ==
    "Experienced professional with demonstrated expertise in technical domains. "
    \o "Proven ability to deliver results and collaborate effectively with cross-functional teams. "
    \o "Seeking to contribute skills and drive innovation in a challenging environment."

\* A cover letter signed with the name as given, blank or not.
CoverLetterUndefaulted(name, job_desc) ==
    "Dear Hiring Manager,\n\n"
    \o "I am writing to express my strong interest in this position. "
    \o "With my background in technology and proven track record of success, "
    \o "I am confident I can make valuable contributions to your team. "
    \o "I look forward to discussing how my skills align with your needs.\n\n"
    \o "Best regards,\n" \o name

_generate_fallback_cover_letter(name, job_desc) ==
    "Dear Hiring Manager,\n\n"
    \o "I am writing to express my strong interest in this position. "
    \o "With my background in technology and proven track record of success, "
    \o "I am confident I can make valuable contributions to your team. "
    \o "I look forward to discussing how my skills align with your needs.\n\n"
    \o "Best regards,\n" \o (IF name # "" THEN name ELSE "Applicant")

\* any(w in line for w in words)
ContainsAny(line, words) == \E w \in words : Contains(line, w)

\* \d{4}
FourDigits == << <<Cls(Digits, 4, 4)>> >>

\* (\d{4})\s*-\s*(\d{4}|present), re.IGNORECASE
DurationPattern ==
    << <<Cls(Digits, 4, 4), Cls(SpaceChars, 0, -1), Lit("-"), Cls(SpaceChars, 0, -1),
         Cls(Digits, 4, 4)>>,
       <<Cls(Digits, 4, 4), Cls(SpaceChars, 0, -1), Lit("-"), Cls(SpaceChars, 0, -1),
         ILit("present")>> >>

\* \b(19|20)\d{2}\b
YearPattern ==
    << <<WordBoundary, Lit("19"), Cls(Digits, 2, 2), WordBoundary>>,
       <<WordBoundary, Lit("20"), Cls(Digits, 2, 2), WordBoundary>> >>

\* The entry a header line of the experience section starts.
NewExperience(line) ==
    [role |-> Strip(line), company |-> "Company Name",
     duration |-> MatchedText(line, Search(DurationPattern, line)),
     details |-> << >>]

\* line.startswith(<bullet literal>) or line.startswith('-') or line.startswith('*')
StartsWithBullet(line) ==
    StartsWith(line, BulletLiteral) \/ StartsWith(line, "-") \/ StartsWith(line, "*")

\* line.lstrip(<bullet literal> + '-* ').strip()
BulletDetail(line) ==
    Strip(LStripChars(line, {Char(BulletLiteral, 1), Char(BulletLiteral, 2),
                             Char(BulletLiteral, 3), "-", "*", " "}))

\* The loop of _extract_experience from line i on.  st is the loop's state:
\* in_experience (in), whether current_exp is set (has), current_exp (cur) and
\* the experience list (out).  The result is the state the loop is left in, at
\* its break or after the last line.
RECURSIVE ExperienceLoop(_, _, _)
ExperienceLoop(lines, i, st) ==
    IF i > Len(lines) THEN st
    ELSE LET line == lines[i]
             line_lower == Strip(Lower(line))
         IN  IF ContainsAny(line_lower, {"experience", "employment", "work history"})
             THEN ExperienceLoop(lines, i + 1, [st EXCEPT !.in = TRUE])
             ELSE IF st.in /\ ContainsAny(line_lower, {"education", "skills", "certifications"})
             THEN [st EXCEPT !.out = IF st.has THEN Append(st.out, st.cur) ELSE st.out]
             ELSE IF st.in /\ Strip(line) # ""
             THEN IF (\E k \in 1..Len(line) : Char(line, k) \in UpperLetters)
                     \/ Search(FourDigits, line).found
                  THEN ExperienceLoop(lines, i + 1,
                          [st EXCEPT !.out = IF st.has THEN Append(st.out, st.cur) ELSE st.out,
                                     !.has = TRUE,
                                     !.cur = NewExperience(line)])
                  ELSE IF st.has /\ StartsWithBullet(line) /\ BulletDetail(line) # ""
                  THEN ExperienceLoop(lines, i + 1,
                          [st EXCEPT !.cur.details = Append(st.cur.details, BulletDetail(line))])
                  ELSE ExperienceLoop(lines, i + 1, st)
             ELSE ExperienceLoop(lines, i + 1, st)

ExperienceTemplate ==
    [role |-> "Professional Experience", company |-> "Previous Employer",
     duration |-> "Years",
     details |-> <<"Led key projects and initiatives",
                   "Collaborated with cross-functional teams",
                   "Delivered measurable results">>]

\* The experience entries returned at most.
MaxExperience == 3

\* A return of the whole list: items if items else [template]
FirstOrTemplateUncapped(items, template, n) == IF items = << >> THEN <<template>> ELSE items

\* items[:n] if items else [template]
FirstOrTemplate(items, template, n) == IF items = << >> THEN <<template>> ELSE Take(items, n)

\* The experience list after the loop and the statement that follows it:
\* if current_exp: experience.append(current_exp)
ScannedExperience(resume_text) ==
    LET st == ExperienceLoop(Split(resume_text, "\n"), 1,
                  [in |-> FALSE, has |-> FALSE, out |-> << >>,
                   cur |-> [role |-> "", company |-> "", duration |-> "", details |-> << >>]])
    IN  IF st.has THEN Append(st.out, st.cur) ELSE st.out

_extract_experience(resume_text) ==
    FirstOrTemplate(ScannedExperience(resume_text), ExperienceTemplate, MaxExperience)

\* The entry a degree line of the education section gives.
NewEducation(line) ==
    [degree |-> Strip(line), institution |-> "",
     year |-> MatchedText(line, Search(YearPattern, line))]

\* The loop of _extract_education from line i on: in_education and the list so far.
RECURSIVE EducationLoop(_, _, _, _)
EducationLoop(lines, i, in_education, education) ==
    IF i > Len(lines) THEN education
    ELSE LET line == lines[i]
             line_lower == Strip(Lower(line))
         IN  IF ContainsAny(line_lower, {"education", "academic", "degree"})
             THEN EducationLoop(lines, i + 1, TRUE, education)
             ELSE IF in_education
                     /\ ContainsAny(line_lower, {"experience", "skills", "certifications"})
             THEN education
             ELSE IF in_education /\ Strip(line) # ""
                     /\ ContainsAny(line_lower, {"bachelor", "master", "phd", "degree",
                                                 "university", "college"})
             THEN EducationLoop(lines, i + 1, in_education,
                                Append(education, NewEducation(line)))
             ELSE EducationLoop(lines, i + 1, in_education, education)

EducationTemplate == [degree |-> "Bachelor's Degree", institution |-> "University", year |-> ""]

\* The education entries returned at most.
MaxEducation == 2

\* The education list after the loop.
ScannedEducation(resume_text) == EducationLoop(Split(resume_text, "\n"), 1, FALSE, << >>)

_extract_education(resume_text) ==
    FirstOrTemplate(ScannedEducation(resume_text), EducationTemplate, MaxEducation)

\* The model-list length below which the skills fallback replaces it.
MinModelSkills == 3

\* The default structure _build_result starts from.
DefaultResult(personal_info) ==
    [personal_info |-> personal_info, summary |-> "", skills |-> << >>,
     missing_keywords |-> << >>, match_score |-> 0, experience |-> << >>,
     education |-> << >>, cover_letter |-> ""]

\* The five fields taken from a parsed dict, score being what _extract_score
\* gave for its match_score: an exception of it leaves the method.
ExtractedFrom(result, parsed, score) ==
    IF score.exc # "none" THEN [exc |-> score.exc, v |-> PyNone]
    ELSE [exc |-> "none",
          v |-> [result EXCEPT
                   !.skills = _extract_list(DictGet(parsed, "skills", PyList(<< >>))),
                   !.missing_keywords =
                       _extract_list(DictGet(parsed, "missing_keywords", PyList(<< >>))),
                   !.match_score = score.v,
                   !.summary = Strip(Str(DictGet(parsed, "summary", PyStr("")))),
                   !.cover_letter = Strip(Str(DictGet(parsed, "cover_letter", PyStr(""))))]]

\* "if parsed:" and its block.  parsed.get raises AttributeError on a truthy
\* value that is no dict.
UpdatedFrom(result, parsed) ==
    IF ~Truthy(parsed) THEN [exc |-> "none", v |-> result]
    ELSE IF ~IsDict(parsed) THEN [exc |-> "AttributeError", v |-> PyNone]
    ELSE ExtractedFrom(result, parsed,
                       _extract_score(DictGet(parsed, "match_score", PyInt(FALSE, "0"))))

\* The fallbacks, and the experience and education read from the resume.
WithFallbacks(result, resume_text, job_desc) ==
    [result EXCEPT
       !.skills = IF Len(@) < MinModelSkills THEN _extract_skills_fallback(resume_text) ELSE @,
       !.summary = IF @ = "" THEN _generate_fallback_summary(resume_text, job_desc) ELSE @,
       !.cover_letter =
           IF @ = "" THEN _generate_fallback_cover_letter(result.personal_info.name, job_desc)
           ELSE @,
       !.experience = _extract_experience(resume_text),
       !.education = _extract_education(resume_text)]

BuiltFrom(updated, resume_text, job_desc) ==
    IF updated.exc # "none" THEN updated
    ELSE [exc |-> "none", v |-> WithFallbacks(updated.v, resume_text, job_desc)]

\* A _build_result that keeps the experience and education a parsed dict gives.
BuildResultKeepingEntries(parsed, personal_info, resume_text, job_desc) ==
    LET built == BuiltFrom(UpdatedFrom(DefaultResult(personal_info), parsed),
                           resume_text, job_desc)
    IN  IF built.exc = "none" /\ IsDict(parsed) /\ KeyIndex(parsed, "experience") # 0
        THEN [built EXCEPT !.v.experience = <<DictGet(parsed, "experience", PyNone)>>,
                           !.v.education = <<DictGet(parsed, "education", PyNone)>>]
        ELSE built

\* _build_result(parsed, personal_info, resume_text, job_desc): [exc, v].
_build_result(parsed, personal_info, resume_text, job_desc) ==
    BuiltFrom(UpdatedFrom(DefaultResult(personal_info), parsed), resume_text, job_desc)

(***************************************************************************)
(* _call_ollama.  The generation response is a stream of lines: a blank    *)
(* keep-alive line, a line that is no JSON, or a chunk with its response   *)
(* fragment and done flag.  failure = k > 0 is a transport failure         *)
(* (requests.exceptions.RequestException) met before line k is read        *)
(* (k = 1: the POST itself fails).                                         *)
(***************************************************************************)

Chunk(response, done) == [kind |-> "chunk", response |-> response, done |-> done]

GarbageLine == [kind |-> "garbage", response |-> "", done |-> FALSE]

BlankLine == [kind |-> "blank", response |-> "", done |-> FALSE]

Stream(lines) == [lines |-> lines, failure |-> 0]

FailingStream(lines, k) == [lines |-> lines, failure |-> k]

\* A line given by its text, json.loads reading it as it reads any text.
RawLine(text) == [kind |-> "raw", text |-> text]

\* A line whose bytes are no UTF-8 text: json.loads raises UnicodeDecodeError,
\* which is no json.JSONDecodeError.
UndecodableLine == [kind |-> "undecodable"]

RECURSIVE ReadLines(_, _, _)

\* Lines 56-58 for a chunk that json.loads gave as a dict: response is
\* chunk.get("response", ""), done the truth of chunk.get("done", False).
ReadChunk(stream, i, acc, response, done) ==
    IF ~IsStr(response) THEN [exc |-> "TypeError", v |-> ""]
    ELSE IF done THEN [exc |-> "none", v |-> acc \o response.s]
    ELSE ReadLines(stream, i + 1, acc \o response.s)

\* Lines 54-60 for a line given by its text, loaded being json.loads of it.
ReadLoaded(stream, i, acc, loaded) ==
    IF loaded.exc # "none" THEN ReadLines(stream, i + 1, acc)
    ELSE IF ~IsDict(loaded.v) THEN [exc |-> "AttributeError", v |-> ""]
    ELSE ReadChunk(stream, i, acc, DictGet(loaded.v, "response", PyStr("")),
                   Truthy(DictGet(loaded.v, "done", PyBool(FALSE))))

\* The loop over response.iter_lines() from line i on, response_text so far in acc.
ReadLines(stream, i, acc) ==
    IF stream.failure = i THEN [exc |-> "Exception: Ollama connection error", v |-> ""]
    ELSE IF i > Len(stream.lines) THEN [exc |-> "none", v |-> acc]
    ELSE LET line == stream.lines[i]
         IN  IF line.kind = "chunk"
             THEN IF line.done THEN [exc |-> "none", v |-> acc \o line.response]
                  ELSE ReadLines(stream, i + 1, acc \o line.response)
             ELSE IF line.kind = "raw"
             THEN ReadLoaded(stream, i, acc, JsonLoads(line.text))
             ELSE IF line.kind = "undecodable"
             THEN [exc |-> "UnicodeDecodeError", v |-> ""]
             ELSE ReadLines(stream, i + 1, acc)

\* _call_ollama(prompt): [exc, v], v the stripped response text.
_call_ollama(stream) ==
    LET read == ReadLines(stream, 1, "")
    IN  [exc |-> read.exc, v |-> Strip(read.v)]

(***************************************************************************)
(* extract_text_from_pdf (src/utils.py).  A PDF either fails to open or    *)
(* has pages; a page's extraction raises, or gives a text ("" when         *)
(* page.extract_text() gives None or nothing).                             *)
(***************************************************************************)

Page(text) == [raises |-> FALSE, text |-> text]

BrokenPage == [raises |-> TRUE, text |-> ""]

Pdf(pages) == [given |-> TRUE, opens |-> TRUE, pages |-> pages]

CorruptPdf == [given |-> TRUE, opens |-> FALSE, pages |-> << >>]

\* The file uploader left empty.
NoUpload == [given |-> FALSE, opens |-> FALSE, pages |-> << >>]

\* The text the page loop accumulates.
RECURSIVE PagesText(_)
PagesText(pages) ==
    IF pages = << >> THEN ""
    ELSE (IF ~pages[1].raises /\ pages[1].text # "" THEN pages[1].text \o "\n" ELSE "")
         \o PagesText(Tail(pages))

extract_text_from_pdf(file) ==
    IF ~file.opens
    THEN "Error reading PDF: cannot open. Please ensure the file is a valid PDF and not password-protected."
    ELSE IF Len(file.pages) = 0 THEN "Error: PDF has no pages"
    ELSE IF Strip(PagesText(file.pages)) = ""
    THEN "Error: No text could be extracted from PDF. The file might be scanned or image-based."
    ELSE Strip(PagesText(file.pages))

(***************************************************************************)
(* The inputs drawn.                                                       *)
(***************************************************************************)

\* A resume with every section, a contact line and bullets.
ResumeFull ==
    "Jane A. Doe\njane.doe@example.com | +1 555-123-4567\nEXPERIENCE\n"
    \o "Data Engineer, Acme 2019 - Present\n- built pipelines in python and sql\n"
    \o "- Led a team of four\nEDUCATION\nBachelor of Science, State University 2015\n"
    \o "SKILLS\nPython, SQL, AWS, Docker"

\* A resume with no section and a single catalog skill.
ResumeOneSkill ==
    "john smith\nI repair bikes and keep my repair notes in git, nothing more to say."

\* A resume with no section and no catalog skill.
ResumePlain ==
    "Maria Lopez\nBaker with ten years of bread, cakes and pastry in small shops."

Resumes == {ResumeFull, ResumeOneSkill, ResumePlain}

\* A resume with more entries and more catalog skills than a record keeps.
ResumeLong ==
    "Ana Maria Silva\nana@example.org\nWORK HISTORY\n"
    \o "Lead Engineer, Initech 2020 - present\n- ran the data platform\n"
    \o "Engineer, Globex 2016 - 2020\n* wrote etl jobs\nAnalyst, Hooli 2013-2016\n"
    \o "Intern, Umbrella 2012\nACADEMIC RECORD\nMaster of Science, Tech University 2012\n"
    \o "Bachelor of Science, City College 2010\nPhD studies, Open University 2015\n"
    \o "TOOLS\nPython, JavaScript, SQL, AWS, Azure, Docker, Kubernetes, React, Git, Linux"

\* The resumes _build_result is applied to.
BuildResumes == Resumes \cup {ResumeLong}

JobData == "Senior data engineer: Python, SQL, AWS, Docker and Kubernetes required."

JobBaker == "Head baker wanted for a busy shop; early mornings, pastry know-how needed."

Jobs == {JobData, JobBaker}

\* Model outputs: a clean JSON object, prose, nothing, fenced JSON, JSON inside
\* prose, JSON with single quotes and trailing commas, JSON documents that are
\* no object, and objects with missing, null or non-finite fields.
RawClean ==
    "{\"skills\": [\"Python\", \"SQL\", \"AWS\"], \"missing_keywords\": [\"Kubernetes\"], "
    \o "\"match_score\": 75, \"summary\": \"Data engineer.\", \"cover_letter\": \"Dear team.\"}"

RawProse == "Sorry, I cannot help with that request."

RawFenced ==
    "Here you go:\n" \o Fence \o "json\n{\"skills\": [\"Go\", \"Rust\"], \"match_score\": \"150\"}\n"
    \o Fence \o "\nDone."

RawEmbedded ==
    "Result: {\"match_score\": 73.9, \"skills\": \"Python, SQL ,AWS\", \"summary\": \" Fits. \"} Thanks"

RawRepairable ==
    "{'skills': ['Go', 'Rust', 'C',], 'match_score': '-5', 'missing_keywords': 42,}"

RawArray == "[1, 2]"

RawNumber == "42"

RawInfinite == "{\"match_score\": 1e999, \"summary\": \"Strong.\"}"

RawNulls ==
    "{\"summary\": null, \"cover_letter\": null, \"match_score\": \"abc\", "
    \o "\"missing_keywords\": [0, false, \"a\", \"\", \"b \"]}"

\* An output that carries experience and education values of its own.
RawWithEntries ==
    "{\"skills\": [\"Go\", \"Rust\", \"C\", \"Ada\"], "
    \o "\"experience\": [{\"role\": \"Chief\"}], \"education\": \"Harvard\"}"

\* An output with fewer skills than a record needs.
RawTwoSkills == "{\"skills\": [\"Cobol\", \"Fortran\"], \"match_score\": 40}"

\* Outputs that more than one strategy of the normalizer can parse: a fenced
\* array before an object, and an object in prose whose text holds a comma
\* before a brace.
RawFenceThenObject == Fence \o "[1]" \o Fence \o " {\"a\": 1}"

RawCommaInText == "Result: {\"a\": \"x,}\"}"

RawOutputs ==
    {RawClean, RawProse, "", RawFenced, RawEmbedded, RawRepairable, RawArray,
     RawNumber, RawInfinite, RawNulls, "[]", "null", "{}",
     RawWithEntries, RawTwoSkills, RawFenceThenObject, RawCommaInText}

\* The uploaded files: each resume on one page, a resume over two pages with a
\* page that fails between, a PDF that cannot be opened, one without pages, one
\* without extractable text, and one whose text is too short.
UploadedFiles ==
    {Pdf(<<Page(r)>>) : r \in Resumes}
    \cup {Pdf(<<Page("Maria Lopez"), BrokenPage,
                Page("Baker with ten years of bread, cakes and pastry in small shops.")>>),
          CorruptPdf, Pdf(<< >>), Pdf(<<Page(""), BrokenPage>>), Pdf(<<Page("Too short")>>)}

\* The entries of the page's model selectbox.
ModelChoices == {"orca-mini:latest", "tinyllama:latest"}

\* The job descriptions typed into the page: a job, none, and a short one.
PageJobs == {JobData, "", "Baker wanted."}

\* The generation responses the page flow is explored with.
PageStreams == {Stream(<<Chunk(raw, TRUE)>>) : raw \in {RawClean, RawArray}}

\* The requests and the generation responses one engine is explored with.
EngineResumes == {ResumeFull, ResumePlain, ResumeOneSkill}

EngineStreams ==
    {Stream(<<Chunk(raw, TRUE)>>) : raw \in {RawClean, RawProse, RawArray, RawInfinite}}
    \cup {Stream(<<Chunk("{\"match_score\": ", FALSE), BlankLine, GarbageLine,
                   Chunk("88}", TRUE), Chunk("ignored", FALSE)>>),
          FailingStream(<<Chunk(RawClean, FALSE)>>, 2)}

(***************************************************************************)
(* LLMEngine.analyze.  The part of it behind the cache and the liveness    *)
(* probe (lines 160-173) depends on the request and on the generation      *)
(* response only; it is tabulated once for the requests explored.          *)
(***************************************************************************)

\* Lines 163-170: the normalizer and the record, for the response of the model
\* call; an exception of the call leaves analyze.
GeneratedFrom(resume_text, job_desc, response) ==
    IF response.exc # "none" THEN [exc |-> response.exc, v |-> PyNone]
    ELSE _build_result(_extract_json_from_response(response.v),
                       _extract_personal_info(resume_text), resume_text, job_desc)

\* Lines 160-173: personal info, the model call, the normalizer, the record.
Generate(resume_text, job_desc, stream) ==
    GeneratedFrom(resume_text, job_desc, _call_ollama(stream))

\* The characters a click needs at least in the job description, and in the
\* text extracted from the resume.
MinJobChars == 50

MinResumeChars == 50

\* The resume texts the page extracts and lets through to the analysis.
PageTexts ==
    {t \in {extract_text_from_pdf(f) : f \in UploadedFiles} :
        ~Contains(t, "Error reading PDF") /\ Len(Strip(t)) >= MinResumeChars}

Requests ==
    (EngineResumes \X Jobs \X EngineStreams) \cup (PageTexts \X PageJobs \X PageStreams)

Generated == [q \in Requests |-> Generate(q[1], q[2], q[3])] @@ << >>

Raised(exc, c, probed, generated) ==
    [exc |-> exc, v |-> PyNone, cache |-> c, probed |-> probed, generated |-> generated]

\* An analyze that returns its result without the assignment
\* self.cache[cache_key] = result.
StoredUncached(c, cache_key, result) ==
    IF result.exc # "none" THEN Raised(result.exc, c, 1, 1)
    ELSE [exc |-> "none", v |-> result.v, cache |-> c, probed |-> 1, generated |-> 1]

\* The end of analyze after the probe succeeded: the result is cached and
\* returned, or the exception that ended the generation leaves analyze.
Stored(c, cache_key, result) ==
    IF result.exc # "none" THEN Raised(result.exc, c, 1, 1)
    ELSE [exc |-> "none", v |-> result.v, cache |-> (cache_key :> result.v) @@ c,
          probed |-> 1, generated |-> 1]

\* An analyze that never looks its key up in the cache.
KeyedRegenerating(c, cache_key, request, up) ==
    IF ~up THEN Raised("Exception: Cannot connect to Ollama", c, 1, 0)
    ELSE Stored(c, cache_key, Generated[request])

\* An analyze that goes on to the generation whatever the probe answered.
KeyedUnprobed(c, cache_key, request, up) ==
    IF cache_key \in DOMAIN c
    THEN [exc |-> "none", v |-> c[cache_key], cache |-> c, probed |-> 0, generated |-> 0]
    ELSE Stored(c, cache_key, Generated[request])

\* analyze with its cache key computed: the cache lookup, the liveness probe
\* (up: it answers), the generation.
Keyed(c, cache_key, request, up) ==
    IF cache_key \in DOMAIN c
    THEN [exc |-> "none", v |-> c[cache_key], cache |-> c, probed |-> 0, generated |-> 0]
    ELSE IF ~up THEN Raised("Exception: Cannot connect to Ollama", c, 1, 0)
    ELSE Stored(c, cache_key, Generated[request])

\* analyze(resume_text, job_desc) on an engine whose cache is c, with the
\* liveness probe answering or not (up) and the generation response stream:
\* [exc, v, cache, probed, generated].
analyze(c, resume_text, job_desc, up, stream) ==
    Keyed(c, _get_cache_key(resume_text, job_desc), <<resume_text, job_desc, stream>>, up)

(***************************************************************************)
(* The state.                                                              *)
(***************************************************************************)

VARIABLES
    cache,          \* LLMEngine.cache of the engine: cache key -> record
    model_name,     \* LLMEngine.model_name of the engine
    probes,         \* liveness probes (GET /api/tags) made so far
    generations,    \* generation requests (POST /api/generate) made so far
    steps,          \* calls or clicks made so far
    call,           \* the last call or click: its arguments and its outcome
    served,         \* history: request -> the record its first successful analysis gave
    session,        \* st.session_state: resume_data, processed, original_text
    analyzed,       \* history: the resume texts the page handed to analyze
    threads         \* the analyze calls running concurrently on the engine

vars ==
    <<cache, model_name, probes, generations, steps, call, served, session, analyzed,
      threads>>

\* The callers that run analyze concurrently in a behaviour of RaceSpec.
Threads == {"t1", "t2"}

\* The calls made on one engine in a behaviour of Spec.
MaxCalls == 2

\* The clicks made on the page in a behaviour of PageSpec.
MaxClicks == 2

\* LLMEngine.__init__ and the session-state defaults of main.py.
Init ==
    /\ cache = << >>
    /\ model_name = "orca-mini:latest"
    /\ probes = 0
    /\ generations = 0
    /\ steps = 0
    /\ call = [op |-> "none"]
    /\ served = << >>
    /\ session = [resume_data |-> << >>, processed |-> FALSE, original_text |-> ""]
    /\ analyzed = {}
    /\ threads = [t \in Threads |-> [pc |-> "idle"]]

\* The first record each request was served with, o being the outcome of an
\* analysis of (resume_text, job_desc).
ServedAfter(resume_text, job_desc, o) ==
    IF o.exc = "none" /\ <<resume_text, job_desc>> \notin DOMAIN served
    THEN (<<resume_text, job_desc>> :> o.v) @@ served
    ELSE served

(***************************************************************************)
(* Spec: one engine, analyze called on it again and again.                 *)
(***************************************************************************)

\* The engine and the history after analyze gave the outcome o.
Analyzed(resume_text, job_desc, up, stream, o) ==
    /\ cache' = o.cache
    /\ probes' = probes + o.probed
    /\ generations' = generations + o.generated
    /\ call' = [op |-> "analyze", resume_text |-> resume_text, job_desc |-> job_desc,
                up |-> up, stream |-> stream, hit |-> o.probed = 0,
                probed |-> o.probed, generated |-> o.generated,
                exc |-> o.exc, ret |-> o.v]
    /\ served' = ServedAfter(resume_text, job_desc, o)

Analyze(resume_text, job_desc, up, stream) ==
    /\ steps < MaxCalls
    /\ steps' = steps + 1
    /\ Analyzed(resume_text, job_desc, up, stream,
                analyze(cache, resume_text, job_desc, up, stream))
    /\ UNCHANGED <<model_name, session, analyzed, threads>>

\* main.py lines 144-152 and create_pdf: the caller reads the record analyze
\* returned, through data.get only.
ReadRecord ==
    /\ call.op = "analyze"
    /\ call.exc = "none"
    /\ call' = [op |-> "read", data |-> call.ret]
    /\ UNCHANGED <<cache, model_name, probes, generations, steps, served, session,
                   analyzed, threads>>

Next ==
    \/ \E resume_text \in EngineResumes, job_desc \in Jobs, up \in BOOLEAN,
          stream \in EngineStreams :
          Analyze(resume_text, job_desc, up, stream)
    \/ ReadRecord

Spec == Init /\ [][Next]_vars

(***************************************************************************)
(* PageSpec: the analyze button of main.py, clicked again and again in one *)
(* process.  Each click that reaches the analysis constructs a new engine. *)
(***************************************************************************)

Notice(uploaded_file, job_desc, notice) ==
    [op |-> "click", uploaded_file |-> uploaded_file, job_desc |-> job_desc,
     notice |-> notice]

\* The match_score of a record as the Python int it is.
ScoreValue(data) == PyInt(FALSE, TextOf(data.match_score))

\* str.isdigit() of a text of ASCII characters.
IsDigit(s) == s # "" /\ AllDigits(s)

\* int(score) for an int, a float or a text of digits and dots: [exc, v].
IntOfScore(score) ==
    IF score.t = "int" THEN [exc |-> "none", v |-> IF score.neg THEN 0 - NatOf(score.d)
                                                   ELSE NatOf(score.d)]
    ELSE IF score.t = "float" THEN [exc |-> "none", v |-> NatOf(IntOfFloat(score).v.d)]
    ELSE IF Contains(score.s, ".") THEN [exc |-> "ValueError", v |-> 0]
    ELSE [exc |-> "none", v |-> NatOf(score.s)]

\* main.py line 152: int(score) if isinstance(score, (str, float)) and
\* str(score).replace('.','').isdigit() else 0
GaugeScore(score) ==
    IF (IsStr(score) \/ score.t = "float") /\ IsDigit(Replace(Str(score), ".", ""))
    THEN IntOfScore(score)
    ELSE [exc |-> "none", v |-> 0]

\* main.py lines 180-187: the interpretation under the gauge.
Interpretation(score) ==
    IF score >= 80 THEN "excellent match"
    ELSE IF score >= 60 THEN "good match"
    ELSE IF score >= 40 THEN "moderate match"
    ELSE "low match"

\* main.py lines 354-362: the heading of the optimization tips.
TipsHeading(score) ==
    IF score >= 80 THEN "excellent match"
    ELSE IF score >= 60 THEN "good match"
    ELSE "needs significant work"

\* main.py lines 150-187 and 352-362 for the record data, gauge being what line
\* 152 gave and tips what int(data.get('match_score', 0)) of line 352 gave.
DashboardOf(data, gauge, tips) ==
    [shown |-> TRUE, data |-> data, gauge |-> gauge.v,
     message |-> Interpretation(gauge.v), tips |-> tips.v, heading |-> TipsHeading(tips.v)]

\* main.py line 144: the dashboard is drawn when the session holds a record.
Dashboard(state) ==
    IF state.processed /\ state.resume_data # << >>
    THEN DashboardOf(state.resume_data[1], GaugeScore(ScoreValue(state.resume_data[1])),
                     IntOfScore(ScoreValue(state.resume_data[1])))
    ELSE [shown |-> FALSE]

\* The run of the script for a click: the notice of the handler, then the
\* dashboard drawn from the session state the handler left.
Shown(click, state) ==
    [op |-> click.op, uploaded_file |-> click.uploaded_file, job_desc |-> click.job_desc,
     notice |-> click.notice, dashboard |-> Dashboard(state)]

\* Lines 115-141: the page after engine.analyze gave the outcome o on the engine
\* just constructed for model_choice.
Processed(uploaded_file, raw_text, job_desc, model_choice, o) ==
    /\ cache' = o.cache
    /\ model_name' = model_choice
    /\ probes' = probes + o.probed
    /\ generations' = generations + o.generated
    /\ analyzed' = analyzed \cup {raw_text}
    /\ served' = ServedAfter(raw_text, job_desc, o)
    /\ threads' = threads
    /\ IF o.exc = "none"
       THEN /\ session' = [resume_data |-> <<o.v>>, processed |-> TRUE,
                           original_text |-> raw_text]
            /\ call' = Shown(Notice(uploaded_file, job_desc, "analysis complete"),
                             [resume_data |-> <<o.v>>, processed |-> TRUE,
                              original_text |-> raw_text])
       ELSE /\ session' = [session EXCEPT !.original_text = raw_text]
            /\ call' = Shown(Notice(uploaded_file, job_desc, "processing error"), session)

\* Lines 100-141: the click with the text extracted from the uploaded file.
\* engine = LLMEngine(model_name=model_choice) starts with an empty cache.
Extracted(uploaded_file, raw_text, job_desc, model_choice, up, stream) ==
    IF Contains(raw_text, "Error reading PDF") \/ Len(Strip(raw_text)) < MinResumeChars
    THEN /\ call' = Shown(Notice(uploaded_file, job_desc, "failed to extract text"), session)
         /\ UNCHANGED <<cache, model_name, probes, generations, served, session, analyzed,
                        threads>>
    ELSE Processed(uploaded_file, raw_text, job_desc, model_choice,
                   analyze(<< >>, raw_text, job_desc, up, stream))

ClickAnalyze(uploaded_file, job_desc, model_choice, up, stream) ==
    /\ steps < MaxClicks
    /\ steps' = steps + 1
    /\ IF ~uploaded_file.given \/ job_desc = ""
       THEN /\ call' = Shown(Notice(uploaded_file, job_desc, "provide both"), session)
            /\ UNCHANGED <<cache, model_name, probes, generations, served, session, analyzed,
                           threads>>
       ELSE IF Len(Strip(job_desc)) < MinJobChars
       THEN /\ call' = Shown(Notice(uploaded_file, job_desc, "job description too short"), session)
            /\ UNCHANGED <<cache, model_name, probes, generations, served, session, analyzed,
                           threads>>
       ELSE Extracted(uploaded_file, extract_text_from_pdf(uploaded_file), job_desc,
                      model_choice, up, stream)

PageNext ==
    \E uploaded_file \in UploadedFiles \cup {NoUpload}, job_desc \in PageJobs,
       model_choice \in ModelChoices, up \in BOOLEAN, stream \in PageStreams :
        ClickAnalyze(uploaded_file, job_desc, model_choice, up, stream)

PageSpec == Init /\ [][PageNext]_vars

(***************************************************************************)
(* RaceSpec: two callers run analyze on one engine at the same time.  A    *)
(* call is the steps of lines 145-178 in order; the steps of the two calls *)
(* interleave.  steps counts the stores.                                   *)
(***************************************************************************)

\* The requests and the generation responses of the concurrent calls.
RaceResumes == {ResumeFull, ResumePlain}

RaceStreams ==
    {Stream(<<Chunk(RawClean, TRUE)>>), Stream(<<Chunk(RawProse, TRUE)>>),
     FailingStream(<<Chunk(RawClean, FALSE)>>, 2)}

\* Lines 145-148: the cache key and the cache lookup.
Enter(t, resume_text, job_desc) ==
    /\ threads[t].pc = "idle"
    /\ threads' =
         [threads EXCEPT ![t] =
            IF _get_cache_key(resume_text, job_desc) \in DOMAIN cache
            THEN [pc |-> "done", resume_text |-> resume_text, job_desc |-> job_desc,
                  cache_key |-> _get_cache_key(resume_text, job_desc), hit |-> TRUE,
                  exc |-> "none", ret |-> cache[_get_cache_key(resume_text, job_desc)],
                  wrote |-> 0]
            ELSE [pc |-> "probe", resume_text |-> resume_text, job_desc |-> job_desc,
                  cache_key |-> _get_cache_key(resume_text, job_desc), hit |-> FALSE]]
    /\ UNCHANGED <<cache, model_name, probes, generations, steps, call, served, session,
                   analyzed>>

\* Lines 151-157: the liveness probe.
Probe(t, up) ==
    /\ threads[t].pc = "probe"
    /\ probes' = probes + 1
    /\ threads' =
         [threads EXCEPT ![t] =
            IF up THEN [@ EXCEPT !.pc = "generate"]
            ELSE [pc |-> "done", resume_text |-> @.resume_text, job_desc |-> @.job_desc,
                  cache_key |-> @.cache_key, hit |-> FALSE,
                  exc |-> "Exception: Cannot connect to Ollama", ret |-> PyNone,
                  wrote |-> 0]]
    /\ UNCHANGED <<cache, model_name, generations, steps, call, served, session, analyzed>>

\* The call of t after the generation gave result.
Invoked(t, result) ==
    threads' =
        [threads EXCEPT ![t] =
           IF result.exc # "none"
           THEN [pc |-> "done", resume_text |-> @.resume_text, job_desc |-> @.job_desc,
                 cache_key |-> @.cache_key, hit |-> FALSE, exc |-> result.exc,
                 ret |-> PyNone, wrote |-> 0]
           ELSE [pc |-> "store", resume_text |-> @.resume_text, job_desc |-> @.job_desc,
                 cache_key |-> @.cache_key, hit |-> FALSE, result |-> result.v]]

\* Lines 160-173: personal info, the model call, the normalizer, the record.
Invoke(t, stream) ==
    /\ threads[t].pc = "generate"
    /\ generations' = generations + 1
    /\ Invoked(t, Generated[<<threads[t].resume_text, threads[t].job_desc, stream>>])
    /\ UNCHANGED <<cache, model_name, probes, steps, call, served, session, analyzed>>

\* Lines 176-178: self.cache[cache_key] = result; return result.
Store(t) ==
    /\ threads[t].pc = "store"
    /\ cache' = (threads[t].cache_key :> threads[t].result) @@ cache
    /\ steps' = steps + 1
    /\ threads' =
         [threads EXCEPT ![t] =
            [pc |-> "done", resume_text |-> @.resume_text, job_desc |-> @.job_desc,
             cache_key |-> @.cache_key, hit |-> FALSE, exc |-> "none",
             ret |-> @.result, wrote |-> steps + 1]]
    /\ UNCHANGED <<model_name, probes, generations, call, served, session, analyzed>>

RaceNext ==
    \E t \in Threads :
        \/ \E resume_text \in RaceResumes : Enter(t, resume_text, JobData)
        \/ \E up \in BOOLEAN : Probe(t, up)
        \/ \E stream \in RaceStreams : Invoke(t, stream)
        \/ Store(t)

RaceSpec == Init /\ [][RaceNext]_vars

(***************************************************************************)
(* FnSpec: the engine's methods applied on their own, one application in   *)
(* each behaviour.  call records the arguments and the outcome.            *)
(***************************************************************************)

\* The length of the raw texts enumerated for the normalizer.
MaxRawLen == 3

RawAlphabet == {"{", "}", "[", "]", "1", "\""}

\* The texts over RawAlphabet of at most n characters.
RECURSIVE TextsUpTo(_)
TextsUpTo(n) ==
    IF n = 0 THEN {""}
    ELSE TextsUpTo(n - 1) \cup {t \o c : t \in TextsUpTo(n - 1), c \in RawAlphabet}

\* The values handed to _extract_score.
ScoreInputs ==
    <<PyStr("150"), PyStr("-5"), PyStr("abc"), PyStr("73.9"), PyStr(" 42 "), PyStr(""),
      PyStr("1e999"), PyStr("inf"), PyStr("nan"), PyStr("75%"),
      PyInt(FALSE, "75"), PyInt(FALSE, "150"), PyInt(TRUE, "5"), PyInt(FALSE, "0"),
      PyFloat("fin", FALSE, "73", "9"), PyFloat("fin", TRUE, "0", "5"),
      PyFloat("inf", FALSE, "", ""), PyFloat("inf", TRUE, "", ""),
      PyFloat("nan", FALSE, "", ""),
      PyNone, PyBool(TRUE), PyList(<< >>), PyList(<<PyInt(FALSE, "75")>>), EmptyDict>>

\* The values handed to _extract_list.
ListInputs ==
    <<PyList(<<PyStr("a"), PyStr(""), PyStr("b ")>>), PyStr("a, b ,c"), PyInt(FALSE, "42"),
      PyList(<<PyInt(FALSE, "0"), PyBool(FALSE), PyStr("x")>>),
      PyList(<<PyInt(FALSE, "0")>>), PyList(<<PyBool(FALSE)>>), PyList(<<PyNone>>),
      PyList(<<PyInt(FALSE, "1"), PyFloat("fin", FALSE, "1", "5"), PyBool(TRUE)>>),
      PyList(<<PyStr(" "), PyStr("  pad  "), PyList(<< >>), EmptyDict>>),
      PyList(<<PyList(<<PyStr("n"), PyInt(FALSE, "1")>>)>>),
      PyList(<< >>), PyStr(""), PyStr(" , a,, b"), PyNone, PyBool(TRUE), EmptyDict,
      PyFloat("fin", FALSE, "3", "5")>>

\* The requests whose cache keys are compared: texts that differ behind the
\* prefix, inside it, and in where the separator stands.
LongResume == Repeat("r", ResumeKeyChars)

LongJob == Repeat("j", JobKeyChars)

KeyResumes == {"a", "a|b", LongResume, LongResume \o "x", LongResume \o "y"}

KeyJobs == {"c", "b|c", LongJob, LongJob \o "x", LongJob \o "y"}

\* The bullet (U+2022), one character.
BulletGlyph == "~"

\* The texts the experience scan is applied to: an entry with bullet lines in
\* lower case, with a capital or a year in a bullet line, with the bullet
\* glyph; a section closed by a line, by a line that also names a section
\* opening, and not closed; a text without a section.
ScanTexts ==
    {"EXPERIENCE\nEngineer at Acme\n- built the pipeline\n* wrote jobs",
     "EXPERIENCE\nEngineer at Acme\n- Led a team of four\n- built things",
     "EXPERIENCE\nEngineer at Acme\n- shipped in 2021",
     "EXPERIENCE\nEngineer at Acme\n" \o BulletGlyph \o " managed the budget",
     "EXPERIENCE\nEngineer at Acme\n" \o BulletLiteral \o " managed the budget",
     "Work History\nEngineer 2019\n- built things\nSKILLS\nPython and more",
     "Experience\nDeveloper A\nskills gained through work experience\nDeveloper B",
     "employment\nDeveloper A\n- did x\nDeveloper B 2001 - 2003\n- did y",
     "EXPERIENCE\nlower case only\n- detail without entry\nCERTIFICATIONS\nZed",
     "Jane Roe\nno section here"}

\* Resume heads the name scan is explored with: the name on the first line, after
\* lines that fail one test each, padded, tab-separated, and on the sixth line.
NameTexts ==
    {"Jane Roe\njane@site.org",
     "jane@site.org\nhttp Info Page\nPortfolio site/jane Roe\nC:\\Users Jane\n  Jane Q. Roe \t\nJohn Doe",
     "Resume\ncurriculum vitae\nOne Two Three Four Five\nMary Ann Lee Poe\nJohn Doe",
     "resume\n\n\n\n555 1234\nJane Roe\nJohn Doe",
     "\tJane\tRoe\r\nEngineer",
     "Resume\njane roe\n1 Main Street\nJaneRoe\nJane Roe @home",
     "HTTP Jane\nJane Roe",
     ""}

\* The lines the model call is explored with: chunks, lines that are no JSON,
\* and lines whose JSON is no chunk.
CallLines ==
    {Chunk("ab ", FALSE), Chunk(" cd", TRUE), GarbageLine, BlankLine, UndecodableLine,
     RawLine("{\"response\": \"ef\", \"done\": false}"), RawLine("{oops"),
     RawLine("[1]"), RawLine("{\"response\": null, \"done\": true}")}

\* The lines of a generation response at most.
MaxLines == 2

RECURSIVE LinesUpTo(_)
LinesUpTo(n) ==
    IF n = 0 THEN {<< >>}
    ELSE LinesUpTo(n - 1)
         \cup {Append(lines, line) : lines \in LinesUpTo(n - 1), line \in CallLines}

\* The generation responses: the lines, and the line a transport failure comes
\* before (0: none).
CallStreams ==
    {FailingStream(lines, k) : lines \in LinesUpTo(MaxLines), k \in 0..(MaxLines + 1)}
    \cup {Stream(<<Chunk("x", FALSE), GarbageLine, BlankLine, RawLine("{oops"),
                   Chunk("y", TRUE), Chunk("z", FALSE)>>)}

\* Resumes the education scan is explored with: degree lines of each keyword,
\* in both cases, with and without a year, before, in and after the section.
EducationTexts ==
    {"EDUCATION\nBachelor of Science, State University 2015\nMaster of Arts 2018 and 2020\n"
        \o "PhD, Tech College\n\nSKILLS\nUniversity of Life",
     "Education\nBachelor degree in Physics 2010\nSkills",
     "EDUCATION\nhigh school diploma\nCollege of Arts 1999\nEXPERIENCE\nMaster craftsman",
     "Academic background\nuniversity of x, 12019\n  MASTER OF LAWS 2003  ",
     "Jane Roe\nBachelor of nothing\nno section here"}

Applied == call.op = "none"

Idle == UNCHANGED <<cache, model_name, probes, generations, steps, served, session,
                    analyzed, threads>>

ExtractJson(raw) ==
    /\ Applied
    /\ call' = [op |-> "_extract_json_from_response", raw |-> raw,
                ret |-> _extract_json_from_response(raw)]
    /\ Idle

ExtractScore(score) ==
    /\ Applied
    /\ call' = [op |-> "_extract_score", score |-> score, out |-> _extract_score(score)]
    /\ Idle

ExtractList(data) ==
    /\ Applied
    /\ call' = [op |-> "_extract_list", data |-> data, ret |-> _extract_list(data)]
    /\ Idle

\* What the normalizer gave, and _build_result on it.
BuiltOf(parsed, resume_text, job_desc) ==
    [parsed |-> parsed,
     out |-> _build_result(parsed, _extract_personal_info(resume_text), resume_text, job_desc)]

\* BuiltOf for the outputs, resumes and jobs explored, computed once.
Built ==
    [q \in RawOutputs \X BuildResumes \X Jobs |->
        BuiltOf(_extract_json_from_response(q[1]), q[2], q[3])] @@ << >>

\* _build_result on what the normalizer gave for raw.
BuildResult(raw, resume_text, job_desc) ==
    /\ Applied
    /\ call' = [op |-> "_build_result", raw |-> raw,
                parsed |-> Built[<<raw, resume_text, job_desc>>].parsed,
                resume_text |-> resume_text,
                out |-> Built[<<raw, resume_text, job_desc>>].out]
    /\ Idle

\* _build_result on what the normalizer gave for two outputs, the resume and
\* the job being the same.
BuildTwice(raw1, raw2, resume_text, job_desc) ==
    /\ Applied
    /\ call' = [op |-> "_build_result twice", raw1 |-> raw1, raw2 |-> raw2,
                resume_text |-> resume_text,
                parsed1 |-> Built[<<raw1, resume_text, job_desc>>].parsed,
                parsed2 |-> Built[<<raw2, resume_text, job_desc>>].parsed,
                out1 |-> Built[<<raw1, resume_text, job_desc>>].out,
                out2 |-> Built[<<raw2, resume_text, job_desc>>].out]
    /\ Idle

\* _extract_experience: the list the scan gave and the list returned.
ExtractExperience(resume_text) ==
    /\ Applied
    /\ call' = [op |-> "_extract_experience", resume_text |-> resume_text,
                scanned |-> ScannedExperience(resume_text),
                ret |-> _extract_experience(resume_text)]
    /\ Idle

\* _extract_education: the list the scan gave and the list returned.
ExtractEducation(resume_text) ==
    /\ Applied
    /\ call' = [op |-> "_extract_education", resume_text |-> resume_text,
                scanned |-> ScannedEducation(resume_text),
                ret |-> _extract_education(resume_text)]
    /\ Idle

\* _extract_personal_info on a resume text.
ExtractPersonalInfo(resume_text) ==
    /\ Applied
    /\ call' = [op |-> "_extract_personal_info", resume_text |-> resume_text,
                ret |-> _extract_personal_info(resume_text)]
    /\ Idle

\* _call_ollama on a generation response.
CallOllama(stream) ==
    /\ Applied
    /\ call' = [op |-> "_call_ollama", stream |-> stream, out |-> _call_ollama(stream)]
    /\ Idle

\* _get_cache_key on two requests.
GetCacheKeys(r1, j1, r2, j2) ==
    /\ Applied
    /\ call' = [op |-> "_get_cache_key", r1 |-> r1, j1 |-> j1, r2 |-> r2, j2 |-> j2,
                input1 |-> CacheKeyInput(r1, j1), input2 |-> CacheKeyInput(r2, j2),
                key1 |-> _get_cache_key(r1, j1), key2 |-> _get_cache_key(r2, j2)]
    /\ Idle

FnNext ==
    \/ \E raw \in RawOutputs \cup TextsUpTo(MaxRawLen) : ExtractJson(raw)
    \/ \E i \in 1..Len(ScoreInputs) : ExtractScore(ScoreInputs[i])
    \/ \E i \in 1..Len(ListInputs) : ExtractList(ListInputs[i])
    \/ \E raw \in RawOutputs, resume_text \in BuildResumes, job_desc \in Jobs :
          BuildResult(raw, resume_text, job_desc)
    \/ \E raw1 \in RawOutputs, raw2 \in RawOutputs, resume_text \in BuildResumes,
          job_desc \in Jobs :
          BuildTwice(raw1, raw2, resume_text, job_desc)
    \/ \E resume_text \in ScanTexts \cup BuildResumes : ExtractExperience(resume_text)
    \/ \E resume_text \in EducationTexts \cup BuildResumes : ExtractEducation(resume_text)
    \/ \E resume_text \in NameTexts \cup BuildResumes : ExtractPersonalInfo(resume_text)
    \/ \E stream \in CallStreams : CallOllama(stream)
    \/ \E r1 \in KeyResumes, j1 \in KeyJobs, r2 \in KeyResumes, j2 \in KeyJobs :
          GetCacheKeys(r1, j1, r2, j2)

FnSpec == Init /\ [][FnNext]_vars

(***************************************************************************)
(* The claims.                                                             *)
(***************************************************************************)

\* C1: for every parsed mapping, the empty one included, and every resume text,
\* the record _build_result returns has a skills sequence of at least 3 entries.
SkillsAtLeastThree ==
    (call.op = "_build_result" /\ IsDict(call.parsed) /\ call.out.exc = "none")
        => Len(call.out.v.skills) >= 3

\* C2: for every raw model output, _extract_json_from_response returns a
\* mapping of field names to values, possibly the empty one.
NormalizerReturnsMapping ==
    call.op = "_extract_json_from_response" => IsDict(call.ret)

ResultFields ==
    {"personal_info", "summary", "skills", "missing_keywords", "match_score",
     "experience", "education", "cover_letter"}

\* C3: whatever text the model call returns, analyze normalizes it and builds
\* the record without raising: the call ends with a record of all eight fields
\* whose match_score is an integer in 0..100.
AnalyzeSurfacesNoAnomaly ==
    (call.op = "analyze" /\ ~call.hit /\ call.up /\ call.stream.failure = 0)
        => /\ call.exc = "none"
           /\ DOMAIN call.ret = ResultFields
           /\ call.ret.match_score \in 0..100

\* C4: _extract_score never raises and returns an integer in 0..100, with
\* "150" -> 100, "-5" -> 0, "abc" -> 0 and "73.9" -> 73.
ScoreNeverRaises ==
    call.op = "_extract_score"
        => /\ call.out.exc = "none"
           /\ call.out.v \in 0..100
           /\ (IsStr(call.score) /\ call.score.s = "150") => call.out.v = 100
           /\ (IsStr(call.score) /\ call.score.s = "-5") => call.out.v = 0
           /\ (IsStr(call.score) /\ call.score.s = "abc") => call.out.v = 0
           /\ (IsStr(call.score) /\ call.score.s = "73.9") => call.out.v = 73

\* The trimmed text of every item whose text is not empty after trimming.
RECURSIVE TrimmedTexts(_)
TrimmedTexts(items) ==
    IF items = << >> THEN << >>
    ELSE (IF Strip(Str(items[1])) # "" THEN <<Strip(Str(items[1]))>> ELSE << >>)
         \o TrimmedTexts(Tail(items))

\* C5: for a sequence, _extract_list returns in order the trimmed text of every
\* item whose text is not empty after trimming, so that 0 and false are kept as
\* their text; for a value that is neither a sequence nor a text it returns the
\* empty sequence.
ListKeepsEveryNonEmptyText ==
    call.op = "_extract_list"
        => /\ IsList(call.data) => call.ret = TrimmedTexts(call.data.items)
           /\ (~IsList(call.data) /\ ~IsStr(call.data)) => call.ret = << >>

\* C6: once analyze has succeeded on the engine for a pair (resume_text,
\* job_desc), every later analyze of the same pair on that engine returns the
\* record the first one returned, and makes neither a liveness probe nor a
\* generation request, whether the service is up or not.
RepeatServedFromCache ==
    [][\A q \in DOMAIN served :
          (call'.op = "analyze" /\ <<call'.resume_text, call'.job_desc>> = q)
              => /\ call'.exc = "none"
                 /\ call'.ret = served[q]
                 /\ probes' = probes
                 /\ generations' = generations]_vars

\* C6's case: a pair analyzed again while the service is down.
RepeatWhileDown ==
    /\ call.op = "analyze"
    /\ <<call.resume_text, call.job_desc>> \in DOMAIN served
    /\ ~call.up
    /\ call.exc = "none"
    /\ steps = 2

\* The error texts extract_text_from_pdf returns in place of a resume text.
IsSentinel(text) ==
    \/ StartsWith(text, "Error reading PDF")
    \/ text = "Error: PDF has no pages"
    \/ StartsWith(text, "Error: No text could be extracted from PDF")

\* C7: the page never hands a sentinel error text of extract_text_from_pdf to
\* analyze as resume_text.
NoSentinelAnalyzed == \A text \in analyzed : ~IsSentinel(text)

\* C8: for a non-empty parsed mapping whose summary (cover_letter) is absent or
\* is not a text, the record carries the fallback summary (cover letter).
BlankFieldsGetFallback ==
    (call.op = "_build_result" /\ IsDict(call.parsed) /\ Truthy(call.parsed)
       /\ call.out.exc = "none")
        => /\ ~IsStr(DictGet(call.parsed, "summary", PyNone))
                => call.out.v.summary = _generate_fallback_summary(call.resume_text, "")
           /\ ~IsStr(DictGet(call.parsed, "cover_letter", PyNone))
                => call.out.v.cover_letter =
                       _generate_fallback_cover_letter(call.out.v.personal_info.name, "")

\* C9: two requests with equal prefixes (1000 characters of the resume, 500 of
\* the job description) get the same key, and two requests whose prefix pairs
\* differ hand different texts to the digest.
KeysFollowPrefixes ==
    call.op = "_get_cache_key"
        => IF /\ Slice(call.r1, 0, ResumeKeyChars) = Slice(call.r2, 0, ResumeKeyChars)
              /\ Slice(call.j1, 0, JobKeyChars) = Slice(call.j2, 0, JobKeyChars)
           THEN call.key1 = call.key2
           ELSE call.input1 # call.input2

\* C10: when a click analyzes the file, job description and model that the
\* click before it analyzed with success, it makes no generation request.
SecondAnalysisFromCache ==
    [][(/\ call.op = "click"
        /\ call.notice = "analysis complete"
        /\ call'.notice \in {"analysis complete", "processing error"}
        /\ call'.uploaded_file = call.uploaded_file
        /\ call'.job_desc = call.job_desc
        /\ model_name' = model_name)
           => generations' = generations]_vars

\* C11: for every resume text and every parsed mapping, the record of
\* _build_result has 1 to 3 experience entries and 1 to 2 education entries, and
\* where a scan finds no entry its sequence is the one templated entry.
EntriesBoundedOrTemplated ==
    (call.op = "_build_result" /\ IsDict(call.parsed) /\ call.out.exc = "none") =>
        /\ Len(call.out.v.experience) \in 1..3
        /\ Len(call.out.v.education) \in 1..2
        /\ ScannedExperience(call.resume_text) = << >>
              => call.out.v.experience = <<ExperienceTemplate>>
        /\ EducationLoop(Split(call.resume_text, "\n"), 1, FALSE, << >>) = << >>
              => call.out.v.education = <<EducationTemplate>>

\* A record built for a resume whose scans find more entries than are kept.
MoreEntriesThanKept ==
    /\ call.op = "_build_result" /\ IsDict(call.parsed) /\ call.out.exc = "none"
    /\ Len(ScannedExperience(call.resume_text)) > 3
    /\ Len(EducationLoop(Split(call.resume_text, "\n"), 1, FALSE, << >>)) > 2
    /\ Len(call.out.v.experience) = 3
    /\ Len(call.out.v.education) = 2

\* C12: an analyze whose liveness probe fails raises the connection error,
\* having probed once, invoked the model not at all and left the cache as it
\* was; and every analyze invokes the model at most once, and only after a
\* probe that answered.
ProbeFailureIsTerminal ==
    [][call'.op = "analyze" =>
         /\ probes' = probes + call'.probed
         /\ generations' = generations + call'.generated
         /\ call'.probed \in {0, 1}
         /\ call'.generated \in {0, 1}
         /\ call'.generated = 1 => (call'.probed = 1 /\ call'.up)
         /\ (_get_cache_key(call'.resume_text, call'.job_desc) \notin DOMAIN cache
                /\ ~call'.up)
              => /\ call'.exc = "Exception: Cannot connect to Ollama"
                 /\ call'.probed = 1
                 /\ call'.generated = 0
                 /\ cache' = cache]_vars

\* A probe that failed on an engine whose cache holds a record.
ProbeFailedOnWarmEngine ==
    /\ call.op = "analyze" /\ ~call.hit /\ ~call.up
    /\ call.exc = "Exception: Cannot connect to Ollama"
    /\ call.probed = 1 /\ call.generated = 0
    /\ cache # << >>

\* A text no line of which opens or closes a section of the scans.
Sectionless(text) ==
    ~ContainsAny(Lower(text), {"experience", "employment", "work history", "education",
                               "academic", "degree", "skills", "certifications"})

\* The signature the fallback cover letter ends with for a resume.
Signature(resume_text) ==
    "Best regards,\n"
    \o (IF _extract_personal_info(resume_text).name = "" THEN "Applicant"
        ELSE _extract_personal_info(resume_text).name)

\* C13: when the model answers with prose that is no JSON and the resume has no
\* recognizable section, analyze returns a record with match_score 0, the
\* skills of the skills fallback, the fallback summary, the fallback cover
\* letter ending with the extracted name (Applicant when blank) and the single
\* templated experience and education entries.
ProseGivesFallbackRecord ==
    (/\ call.op = "analyze" /\ call.generated = 1
     /\ call.stream = Stream(<<Chunk(RawProse, TRUE)>>)
     /\ Sectionless(call.resume_text))
        => /\ call.exc = "none"
           /\ call.ret.match_score = 0
           /\ call.ret.skills = _extract_skills_fallback(call.resume_text)
           /\ call.ret.summary = _generate_fallback_summary(call.resume_text, call.job_desc)
           /\ StartsWith(call.ret.cover_letter, "Dear Hiring Manager,\n\n")
           /\ Len(call.ret.cover_letter) > Len(Signature(call.resume_text))
           /\ SliceFrom(call.ret.cover_letter,
                        Len(call.ret.cover_letter) - Len(Signature(call.resume_text)))
                = Signature(call.resume_text)
           /\ call.ret.experience = <<ExperienceTemplate>>
           /\ call.ret.education = <<EducationTemplate>>

\* Prose answered for a sectionless resume from which no name is extracted.
ProseForNamelessResume ==
    /\ call.op = "analyze" /\ call.generated = 1 /\ call.exc = "none"
    /\ call.stream = Stream(<<Chunk(RawProse, TRUE)>>)
    /\ Sectionless(call.resume_text)
    /\ _extract_personal_info(call.resume_text).name = ""
    /\ call.ret.skills = <<"Git">>

\* C14: the experience and education of the record of _build_result depend on
\* the resume text only: two parsed mappings, whatever experience or education
\* they carry, give equal experience and equal education for one resume text.
EntriesDependOnResumeOnly ==
    (/\ call.op = "_build_result twice"
     /\ IsDict(call.parsed1) /\ IsDict(call.parsed2)
     /\ call.out1.exc = "none" /\ call.out2.exc = "none")
        => /\ call.out1.v.experience = call.out2.v.experience
           /\ call.out1.v.education = call.out2.v.education

\* Two records for one resume, one of them from a parsed mapping that carries
\* experience and education.
BuiltWithAndWithoutEntries ==
    /\ call.op = "_build_result twice"
    /\ IsDict(call.parsed1) /\ IsDict(call.parsed2)
    /\ call.out1.exc = "none" /\ call.out2.exc = "none"
    /\ KeyIndex(call.parsed1, "experience") # 0
    /\ KeyIndex(call.parsed1, "education") # 0
    /\ KeyIndex(call.parsed2, "experience") = 0
    /\ call.out1.v.skills # call.out2.v.skills
    /\ Len(call.out1.v.experience) > 1

\* C15: a record stored in the engine's cache under a key stays there as it
\* is: no later analyze on the engine, hit or miss, succeeding or failing, and no
\* reading of a returned record replaces it, alters it or removes it.
CachedRecordsKept ==
    [][\A k \in DOMAIN cache : k \in DOMAIN cache' /\ cache'[k] = cache[k]]_vars

\* A returned record read on an engine that has stored a second record.
ReadAfterSecondStore ==
    /\ call.op = "read"
    /\ steps = 2
    /\ Cardinality(DOMAIN cache) = 2

\* C16: when two analyze calls with one cache key run at the same time on one
\* engine and both miss the cache, then, both having returned a record, the
\* cache holds under the key the record of the call that wrote last, and the
\* record the other call returned is equal to it.
RacingMissesAgree ==
    \A t \in Threads, u \in Threads :
        (/\ t # u
         /\ threads[t].pc = "done" /\ threads[u].pc = "done"
         /\ threads[t].cache_key = threads[u].cache_key
         /\ ~threads[t].hit /\ ~threads[u].hit
         /\ threads[t].exc = "none" /\ threads[u].exc = "none"
         /\ threads[t].wrote < threads[u].wrote)
            => /\ threads[u].cache_key \in DOMAIN cache
               /\ cache[threads[u].cache_key] = threads[u].ret
               /\ threads[t].ret = cache[threads[u].cache_key]

\* The text between the first fence of t and the next one (the end of t when
\* there is no next one), a leading "json" dropped, trimmed.
FirstFenced(t) ==
    LET rest == SliceFrom(t, Find(t, Fence) + Len(Fence))
        seg == IF Find(rest, Fence) = -1 THEN rest ELSE Slice(rest, 0, Find(rest, Fence))
    IN  Strip(IF StartsWith(seg, "json") THEN SliceFrom(seg, 4) ELSE seg)

\* Whether strategy i applies to the trimmed text t, and the text it parses.
StrategyApplies(t, i) ==
    CASE i = 1 -> TRUE
      [] i = 2 -> Contains(t, Fence)
      [] i \in {3, 4} -> Find(t, "{") # -1 /\ RFind(t, "}") > Find(t, "{")

StrategyText(t, i) ==
    CASE i = 1 -> t
      [] i = 2 -> FirstFenced(t)
      [] i = 3 -> Slice(t, Find(t, "{"), RFind(t, "}") + 1)
      [] i = 4 -> RemoveTrailingCommas(
                      Replace(Slice(t, Find(t, "{"), RFind(t, "}") + 1), "'", "\""))

\* The strategies that apply to t and whose text parses.
StrategiesParsing(t) ==
    {i \in 1..4 : StrategyApplies(t, i) /\ JsonLoads(StrategyText(t, i)).exc = "none"}

\* C17: the normalizer returns the parse of the first strategy that parses, in
\* the order whole text, first fenced segment, substring from the first "{" to
\* the last "}", that substring repaired; each strategy works on the original
\* trimmed text; the result is the empty mapping when none parses.
StrategiesInOrder ==
    call.op = "_extract_json_from_response" =>
        call.ret = IF StrategiesParsing(Strip(call.raw)) = {} THEN EmptyDict
                   ELSE JsonLoads(StrategyText(Strip(call.raw),
                                               Least(StrategiesParsing(Strip(call.raw))))).v

\* An output that the fenced strategy and the brace strategy both parse, to
\* different values.
TwoStrategiesParse ==
    /\ call.op = "_extract_json_from_response"
    /\ {2, 3} \subseteq StrategiesParsing(Strip(call.raw))
    /\ 1 \notin StrategiesParsing(Strip(call.raw))
    /\ JsonLoads(StrategyText(Strip(call.raw), 2)).v
         # JsonLoads(StrategyText(Strip(call.raw), 3)).v
    /\ call.ret = JsonLoads(StrategyText(Strip(call.raw), 2)).v

\* A line that opens the experience section, and one that closes it.
OpensExperience(line) ==
    ContainsAny(Lower(line), {"experience", "employment", "work history"})

ClosesExperience(line) ==
    ContainsAny(Lower(line), {"education", "skills", "certifications"})

\* A line that begins with a bullet glyph and has text after it.
BulletLine(line) ==
    /\ Len(line) > 0
    /\ Char(line, 1) \in {BulletGlyph, "-", "*"}
    /\ Strip(SliceFrom(line, 1)) # ""

\* A line the scan takes for the header of a new entry.
HeaderLine(line) ==
    (\E k \in 1..Len(line) : Char(line, k) \in UpperLetters) \/ Search(FourDigits, line).found

\* Lines that open the section, start one entry with a header line, and go on
\* with bullet lines only, none of them a header line.
BulletedEntry(lines) ==
    /\ Len(lines) >= 3
    /\ OpensExperience(lines[1])
    /\ ~BulletLine(lines[2]) /\ ~OpensExperience(lines[2]) /\ ~ClosesExperience(lines[2])
    /\ HeaderLine(lines[2])
    /\ \A i \in 3..Len(lines) :
          /\ BulletLine(lines[i]) /\ ~HeaderLine(lines[i])
          /\ ~OpensExperience(lines[i]) /\ ~ClosesExperience(lines[i])

\* C18: in the experience scan, inside the section and with an entry in
\* progress, every line that begins with a bullet glyph and has text after it
\* is appended, the glyph stripped, to the details of the current entry.  It is
\* stated for the bullet lines that are no header lines.
BulletLinesBecomeDetails ==
    (call.op = "_extract_experience" /\ BulletedEntry(Split(call.resume_text, "\n")))
        => /\ Len(call.scanned) = 1
           /\ call.scanned[1].details =
                [i \in 1..(Len(Split(call.resume_text, "\n")) - 2) |->
                    Strip(SliceFrom(Split(call.resume_text, "\n")[i + 2], 1))]

\* The lines at which the section is open and which close it.
ClosingLines(lines) ==
    {k \in 1..Len(lines) :
        ClosesExperience(lines[k]) /\ \E j \in 1..(k - 1) : OpensExperience(lines[j])}

\* C19: the experience scan enters the section at a line matching
\* experience|employment|work history, and inside the section every line
\* matching education|skills|certifications ends it: the entry in progress is
\* emitted and no later line contributes, so the scan gives what it gives for
\* the lines before that line.
SectionEndsAtClosingLine ==
    (call.op = "_extract_experience"
     /\ ClosingLines(Split(call.resume_text, "\n")) # {})
        => call.scanned =
             ScannedExperience(
                 Join("\n", Take(Split(call.resume_text, "\n"),
                                 Least(ClosingLines(Split(call.resume_text, "\n"))) - 1)))

\* The skill list coerced from a parsed mapping.
CoercedSkills(parsed) ==
    IF Truthy(parsed) THEN _extract_list(DictGet(parsed, "skills", PyList(<< >>)))
    ELSE << >>

\* The catalog terms found in a text whatever their case, in catalog order.
CatalogFound(text) ==
    SelectSeq(common_skills, LAMBDA term : Contains(Lower(text), Lower(term)))

\* The first 8 catalog terms found, or the three placeholders when none is.
ExpectedFallback(found) ==
    IF found = << >> THEN <<"Technical Skills", "Problem Solving", "Team Collaboration">>
    ELSE IF Len(found) > 8 THEN SubSeq(found, 1, 8)
    ELSE found

\* C20: _build_result returns a coerced model skill list of 3 or more entries
\* unchanged, and replaces one of fewer than 3 by the skills fallback for the
\* resume text: the catalog terms found in it whatever their case, in catalog
\* order, at most 8, or the three placeholders; no model item is merged in.
SkillsKeptOrReplaced ==
    (call.op = "_build_result" /\ IsDict(call.parsed) /\ call.out.exc = "none") =>
        call.out.v.skills =
            IF Len(CoercedSkills(call.parsed)) >= 3 THEN CoercedSkills(call.parsed)
            ELSE ExpectedFallback(CatalogFound(call.resume_text))

\* Two model skills replaced for a resume that holds more than 8 catalog terms.
ShortListReplaced ==
    /\ call.op = "_build_result" /\ IsDict(call.parsed) /\ call.out.exc = "none"
    /\ Len(CoercedSkills(call.parsed)) = 2
    /\ Len(CatalogFound(call.resume_text)) > 8
    /\ Len(call.out.v.skills) = 8
    /\ \A i \in 1..8 : call.out.v.skills[i] \notin {"Cobol", "Fortran"}

\* A line that can be a name: 2 to 4 tokens, an uppercase first character once
\* trimmed, and none of the excluded texts in it.
NameCandidate(line) ==
    /\ Len(SplitWords(Strip(line))) \in 2..4
    /\ Char(Strip(line), 1) \in UpperLetters
    /\ ~Contains(line, "@") /\ ~Contains(line, "http")
    /\ ~Contains(line, "/") /\ ~Contains(line, "\\")

\* The positions, among the first 5 lines of a text, of the lines that can be a name.
CandidatePositions(text) ==
    {i \in 1..Len(Split(text, "\n")) : i <= 5 /\ NameCandidate(Split(text, "\n")[i])}

\* C21: the name _extract_personal_info returns is the trimmed text of the first
\* of the first 5 lines that has 2 to 4 tokens, starts with an uppercase
\* character and holds none of '@', 'http', '/', '\'; it is empty when none of
\* the first 5 lines is such a line, whatever the sixth and later lines are.
NameIsFirstCandidateOfFive ==
    call.op = "_extract_personal_info" =>
        IF CandidatePositions(call.resume_text) = {} THEN call.ret.name = ""
        ELSE \E i \in CandidatePositions(call.resume_text) :
                /\ \A j \in CandidatePositions(call.resume_text) : i <= j
                /\ call.ret.name = Strip(Split(call.resume_text, "\n")[i])

\* A resume whose only candidate lines are the sixth and later gave no name.
SixthLineNotTaken ==
    /\ call.op = "_extract_personal_info"
    /\ call.ret.name = ""
    /\ Len(Split(call.resume_text, "\n")) >= 6
    /\ NameCandidate(Split(call.resume_text, "\n")[6])

\* A well-formed chunk: a line whose JSON is an object with a text fragment.
WellFormedChunk(line) ==
    \/ line.kind = "chunk"
    \/ /\ line.kind = "raw"
       /\ JsonLoads(line.text).exc = "none"
       /\ IsDict(JsonLoads(line.text).v)
       /\ IsStr(DictGet(JsonLoads(line.text).v, "response", PyNone))

\* The fragment and the done flag of a well-formed chunk.
FragmentOf(line) ==
    IF line.kind = "chunk" THEN line.response
    ELSE DictGet(JsonLoads(line.text).v, "response", PyNone).s

DoneOf(line) ==
    IF line.kind = "chunk" THEN line.done
    ELSE DictGet(JsonLoads(line.text).v, "done", PyBool(FALSE)) = PyBool(TRUE)

\* The lines up to and including the first well-formed chunk that is done, all
\* the lines without one.
LinesUntilDone(lines) ==
    LET done == {i \in 1..Len(lines) : WellFormedChunk(lines[i]) /\ DoneOf(lines[i])}
    IN  IF done = {} THEN lines ELSE SubSeq(lines, 1, Least(done))

\* The fragments of the well-formed chunks among the lines, in arrival order.
RECURSIVE Fragments(_)
Fragments(lines) ==
    IF lines = << >> THEN ""
    ELSE (IF WellFormedChunk(lines[1]) THEN FragmentOf(lines[1]) ELSE "")
         \o Fragments(Tail(lines))

\* The transport failure comes before the call stops reading.
FailureMet(stream) ==
    /\ stream.failure > 0
    /\ \/ stream.failure <= Len(LinesUntilDone(stream.lines))
       \/ /\ stream.failure = Len(stream.lines) + 1
          /\ \A i \in 1..Len(stream.lines) :
                ~(WellFormedChunk(stream.lines[i]) /\ DoneOf(stream.lines[i]))

\* C22: _call_ollama returns the fragments of the well-formed chunks, in arrival
\* order, up to and including the first chunk that is done, or of all the chunks
\* when none is; the chunks after it contribute nothing and the lines that are
\* no valid JSON are skipped; a transport failure met while reading ends the
\* call with the connection error and no text.
CallReturnsFragments ==
    call.op = "_call_ollama" =>
        IF FailureMet(call.stream)
        THEN call.out.exc = "Exception: Ollama connection error"
        ELSE /\ call.out.exc = "none"
             /\ call.out.v = Fragments(LinesUntilDone(call.stream.lines))

\* The positions of the lines that open the education section, and of those
\* that close it.
OpensEducation(lines) ==
    {i \in 1..Len(lines) : ContainsAny(Lower(lines[i]), {"education", "academic", "degree"})}

ClosesEducation(lines) ==
    {i \in 1..Len(lines) :
        ContainsAny(Lower(lines[i]), {"experience", "skills", "certifications"})}

\* The positions after the line that opened the section and before the line
\* that closes it, of the non-blank lines that hold a degree keyword.
DegreeLines(lines) ==
    {i \in 1..Len(lines) :
        /\ OpensEducation(lines) # {}
        /\ i > Least(OpensEducation(lines))
        /\ \A j \in ClosesEducation(lines) : j > Least(OpensEducation(lines)) => i < j
        /\ Strip(lines[i]) # ""
        /\ ContainsAny(Lower(lines[i]), {"bachelor", "master", "phd", "degree",
                                          "university", "college"})}

\* C23: every non-blank line between the line that opened the education section
\* and the line that closes it that holds one of bachelor, master, phd, degree,
\* university, college in either case is an entry of the list the scan gives,
\* its year being the first 19xx or 20xx token of the line, if any.
DegreeLinesCaptured ==
    call.op = "_extract_education" =>
        \A i \in DegreeLines(Split(call.resume_text, "\n")) :
            \E k \in 1..Len(call.scanned) :
                /\ call.scanned[k].degree = Strip(Split(call.resume_text, "\n")[i])
                /\ call.scanned[k].year =
                       MatchedText(Split(call.resume_text, "\n")[i],
                                   Search(YearPattern, Split(call.resume_text, "\n")[i]))

\* C24: whenever the dashboard is drawn for the record of an analysis, the score
\* of the match gauge, which its interpretation message goes by, is the
\* match_score of the record, and so is the score the optimization tips go by.
GaugeShowsMatchScore ==
    (call.op = "click" /\ call.dashboard.shown) =>
        /\ call.dashboard.gauge = call.dashboard.data.match_score
        /\ call.dashboard.tips = call.dashboard.data.match_score
        /\ call.dashboard.gauge = call.dashboard.tips

====
